---- MODULE Spec2Model ----
(***************************************************************************)
(* Model of td::BackgroundManager (td/telegram/BackgroundManager.cpp):     *)
(* the registry of backgrounds, the local identifier allocator, the        *)
(* de-duplicated catalog fetch and by-name resolution, the selection slots  *)
(* with their durable records, and the collaborators the manager talks to   *)
(* (binlog key-value store, sqlite key-value store, network queries).       *)
(***************************************************************************)
EXTENDS Integers, Sequences, FiniteSets, TLC

(***************************************************************************)
(* Bounds of the model.                                                     *)
(***************************************************************************)
\* Local identifiers are 1..LocalIdLimit (BackgroundId::is_local); the
\* allocator stops (its CHECK fails) when the counter would leave the range.
LocalIdLimit == 3
\* Number of promises (API calls) created in one behaviour.
MaxCalls == 3
\* set_background, remove_background and reset_backgrounds, whose inputs are
\* many, are called only while fewer than this many calls have been made.
MaxSelectCalls == 2
\* Longest wallpaper list of one catalog response.
MaxCatalog == 2

(***************************************************************************)
(* Characters and names.  A name is a sequence of one-character strings.   *)
(***************************************************************************)
Rep(c, n) == [i \in 1..n |-> c]

\* is_base64url_characters accepts [A-Za-z0-9_-]; these are the ones used here
Base64UrlChars == {"a", "b", "f", "0", "1", "-", "_"}

is_base64url_characters(s) == \A i \in 1..Len(s) : s[i] \in Base64UrlChars

HasChar(s, c) == \E i \in 1..Len(s) : s[i] = c

\* Slice::find: the 0-based position of the first c (only used when HasChar)
Find(s, c) == (CHOOSE i \in 1..Len(s) : s[i] = c /\ \A j \in 1..(i - 1) : s[j] # c) - 1

\* name.substr(0, name.find('?')): the whole name when there is no '?'
BeforeParams(s) == IF HasChar(s, "?") THEN SubSeq(s, 1, Find(s, "?")) ELSE s

LocalNameMaxLen == 13

\* an is_background_name_local without the character check
is_background_name_local_by_length(name) ==
    \/ Len(name) <= LocalNameMaxLen
    \/ (HasChar(name, "?") /\ Find(name, "?") <= LocalNameMaxLen)

is_background_name_local(name) ==
    \/ Len(name) <= LocalNameMaxLen
    \/ (HasChar(name, "?") /\ Find(name, "?") <= LocalNameMaxLen)
    \/ ~is_base64url_characters(BeforeParams(name))

EmptyName == << >>
SlugA == Rep("a", 14)
SlugB == Rep("b", 14)

(***************************************************************************)
(* Identifiers.                                                             *)
(***************************************************************************)
NoId == 0
is_valid(id) == id # 0
is_local(id) == 0 < id /\ id <= LocalIdLimit

RemoteId1 == LocalIdLimit + 1
RemoteId2 == LocalIdLimit + 2
RemoteIds == {RemoteId1, RemoteId2}

NoFile == 0
file_is_valid(f) == f # 0

(***************************************************************************)
(* BackgroundType: a kind and its parameters.                               *)
(***************************************************************************)
BackgroundType(kind, p) == [kind |-> kind, p |-> p]
\* BackgroundType(): a fill with default parameters
DefaultType == BackgroundType("Fill", 0)
has_file(type) == type.kind # "Fill"
has_equal_type(a, b) == a.kind = b.kind
\* BackgroundType(is_fill, is_pattern, settings)
TypeFromSettings(is_fill, is_pattern, settings) ==
    BackgroundType(IF is_fill THEN "Fill" ELSE IF is_pattern THEN "Pattern" ELSE "Wallpaper",
                   settings)
\* get_link of a fill: a short colour string
Digit(n) == IF n = 0 THEN "0" ELSE "1"
get_link(type) == IF type.kind = "Fill" THEN <<"f", Digit(type.p)>> ELSE <<"m", Digit(type.p)>>

\* the types the client asks for
FillTypes == {BackgroundType("Fill", 0), BackgroundType("Fill", 1)}
FileTypes == {BackgroundType("Wallpaper", 0), BackgroundType("Wallpaper", 1),
              BackgroundType("Pattern", 0)}

(***************************************************************************)
(* Background records and their durable encoding.                           *)
(***************************************************************************)
\* Background(): the default-constructed record
EmptyBackground ==
    [id |-> NoId, access_hash |-> 0, name |-> EmptyName, file_id |-> NoFile,
     is_creator |-> FALSE, is_default |-> FALSE, is_dark |-> FALSE,
     has_new_local_id |-> TRUE, file_source_id |-> 0, type |-> DefaultType]

\* Background::store: the flags, then id, access_hash, name, the document
\* when the file identifier is valid, then the type
StoreBackground(b) ==
    [is_creator |-> b.is_creator, is_default |-> b.is_default, is_dark |-> b.is_dark,
     has_file_id |-> file_is_valid(b.file_id), has_new_local_id |-> b.has_new_local_id,
     id |-> b.id, access_hash |-> b.access_hash, name |-> b.name,
     document |-> IF file_is_valid(b.file_id) THEN b.file_id ELSE NoFile,
     type |-> b.type]

\* Background::parse: file_id comes from the document only under the flag;
\* the file source is not part of the encoding
ParseBackground(e) ==
    [id |-> e.id, access_hash |-> e.access_hash, name |-> e.name,
     file_id |-> IF e.has_file_id THEN e.document ELSE NoFile,
     is_creator |-> e.is_creator, is_default |-> e.is_default, is_dark |-> e.is_dark,
     has_new_local_id |-> e.has_new_local_id, file_source_id |-> 0, type |-> e.type]

\* BackgroundLogEvent::store / parse; the stored string is a one-element
\* sequence, the empty string is the empty sequence
StoreLogEvent(b, set_type) == << [background |-> StoreBackground(b), set_type |-> set_type] >>
ParseLogEvent(s) == [background_ |-> ParseBackground(s[1].background), set_type_ |-> s[1].set_type]

\* to_string / to_integer<int64> of the "max_bg_id" value: decimal digits
DigitChars == <<"0", "1", "2", "3", "4", "5", "6", "7", "8", "9">>
RECURSIVE to_string(_)
to_string(n) ==
    IF n < 10 THEN <<DigitChars[n + 1]>>
    ELSE to_string(n \div 10) \o <<DigitChars[(n % 10) + 1]>>
DigitValue(c) == (CHOOSE i \in 1..10 : DigitChars[i] = c) - 1
RECURSIVE to_integer(_)
to_integer(s) ==
    IF Len(s) = 0 THEN 0
    ELSE 10 * to_integer(SubSeq(s, 1, Len(s) - 1)) + DigitValue(s[Len(s)])

get_background_database_key(for_dark_theme) == IF for_dark_theme THEN "bgd" ELSE "bg"


(***************************************************************************)
(* State.                                                                   *)
(***************************************************************************)
VARIABLES
    backgrounds_,                          \* BackgroundId -> Background
    name_to_background_id_,                \* name -> BackgroundId
    file_id_to_background_id_,             \* FileId -> BackgroundId
    background_id_to_file_source_id_,      \* BackgroundId -> FileSourceId
    loaded_from_database_backgrounds_,     \* set of names
    being_loaded_from_database_backgrounds_, \* name -> sequence of promises
    installed_background_ids_,             \* sequence of BackgroundId
    set_background_id_,                    \* for_dark_theme -> BackgroundId
    set_background_type_,                  \* for_dark_theme -> BackgroundType
    max_local_background_id_,              \* BackgroundId
    pending_get_backgrounds_queries_,      \* sequence of promises
    binlog_pmc,                            \* durable: "max_bg_id", "bg", "bgd"
    sqlite_pmc,                            \* durable: name -> stored Background ("bgn" + name)
    file_main_,                            \* FileManager: FileId -> main FileId of its file view
    being_uploaded_files_,                 \* upload FileId -> (type, for_dark_theme, promise)
    uploads,                               \* FileManager: uploads whose outcome is not yet reported
    net_queries,                           \* network queries in flight
    sqlite_gets,                           \* sqlite get requests in flight
    promises,                              \* the promises not yet resolved
    calls,                                 \* number of API calls made so far
    use_file_db,                           \* G()->parameters().use_file_db
    close_flag,                            \* G()->close_flag()
    is_bot,                                \* td_->auth_manager_->is_bot()
    started,                               \* start_up has run
    fatal,                                 \* a CHECK has failed
    issued,                                \* every id get_next_local_background_id has returned
    remote_seen,                           \* every id accepted from a remote response
    out                                    \* what the last step did: op, updates, new ids, requests

vars == <<backgrounds_, name_to_background_id_, file_id_to_background_id_,
          background_id_to_file_source_id_, loaded_from_database_backgrounds_,
          being_loaded_from_database_backgrounds_, installed_background_ids_,
          set_background_id_, set_background_type_, max_local_background_id_,
          pending_get_backgrounds_queries_, binlog_pmc, sqlite_pmc, file_main_,
          being_uploaded_files_, uploads, net_queries, sqlite_gets, promises, calls,
          use_file_db, close_flag, is_bot, started,
          fatal, issued, remote_seen, out>>

\* What a step reports: the handler run and the result it was given, the
\* updates it sent to the client, the local ids it allocated, the network
\* queries and sqlite gets it issued, the promises it resolved (as a set with
\* their results, and as the sequence in which it resolved them), its calls of
\* set_background_id, the binlog keys save_background_id wrote or erased, the
\* (id, type) pair it returned, the name it was called with, the
\* identifiers on_get_background returned to it, the local file it was given,
\* and its calls of the file manager (upload, merge, cancel_upload,
\* delete_partial_remote_location) and lookups of being_uploaded_files_, and
\* the identifiers it created a file source for, and the identifier and type
\* a set_background call with an inputBackgroundRemote was given
NoOut ==
    [op |-> "none", result |-> "none", wallpapers |-> << >>, updates |-> << >>,
     new_ids |-> << >>, sent |-> << >>, db_gets |-> << >>, resolved |-> {},
     set_calls |-> << >>, saves |-> << >>, ret |-> [id |-> NoId, type |-> DefaultType],
     name |-> EmptyName, got |-> << >>, input |-> << >>, uploads |-> << >>,
     looked_up |-> << >>, merges |-> << >>, cancels |-> << >>, deleted_partial |-> << >>,
     resolved_seq |-> << >>, new_sources |-> << >>, by_id |-> << >>]

\* The state as one record, threaded through the calls of a handler
World ==
    [backgrounds_ |-> backgrounds_,
     name_to_background_id_ |-> name_to_background_id_,
     file_id_to_background_id_ |-> file_id_to_background_id_,
     background_id_to_file_source_id_ |-> background_id_to_file_source_id_,
     loaded_from_database_backgrounds_ |-> loaded_from_database_backgrounds_,
     being_loaded_from_database_backgrounds_ |-> being_loaded_from_database_backgrounds_,
     installed_background_ids_ |-> installed_background_ids_,
     set_background_id_ |-> set_background_id_,
     set_background_type_ |-> set_background_type_,
     max_local_background_id_ |-> max_local_background_id_,
     pending_get_backgrounds_queries_ |-> pending_get_backgrounds_queries_,
     binlog_pmc |-> binlog_pmc,
     sqlite_pmc |-> sqlite_pmc,
     file_main_ |-> file_main_,
     being_uploaded_files_ |-> being_uploaded_files_,
     uploads |-> uploads,
     net_queries |-> net_queries,
     sqlite_gets |-> sqlite_gets,
     promises |-> promises,
     calls |-> calls,
     fatal |-> FALSE,
     issued |-> issued,
     remote_seen |-> remote_seen,
     out |-> NoOut]

\* The step's result: the whole new state, or only the failure when a CHECK
\* failed.  A step that would take the allocator out of the modelled range of
\* local identifiers is not taken.
CommitWorld(w) ==
    /\ w.max_local_background_id_ <= LocalIdLimit
    /\ fatal' = w.fatal
    /\ IF w.fatal
       THEN UNCHANGED <<backgrounds_, name_to_background_id_, file_id_to_background_id_,
                        background_id_to_file_source_id_, loaded_from_database_backgrounds_,
                        being_loaded_from_database_backgrounds_, installed_background_ids_,
                        set_background_id_, set_background_type_, max_local_background_id_,
                        pending_get_backgrounds_queries_, binlog_pmc, sqlite_pmc, file_main_,
                        being_uploaded_files_, uploads, net_queries, sqlite_gets, promises,
                        calls, issued, remote_seen>>
            /\ out' = [NoOut EXCEPT !.op = w.out.op]
       ELSE /\ backgrounds_' = w.backgrounds_
            /\ name_to_background_id_' = w.name_to_background_id_
            /\ file_id_to_background_id_' = w.file_id_to_background_id_
            /\ background_id_to_file_source_id_' = w.background_id_to_file_source_id_
            /\ loaded_from_database_backgrounds_' = w.loaded_from_database_backgrounds_
            /\ being_loaded_from_database_backgrounds_' = w.being_loaded_from_database_backgrounds_
            /\ installed_background_ids_' = w.installed_background_ids_
            /\ set_background_id_' = w.set_background_id_
            /\ set_background_type_' = w.set_background_type_
            /\ max_local_background_id_' = w.max_local_background_id_
            /\ pending_get_backgrounds_queries_' = w.pending_get_backgrounds_queries_
            /\ binlog_pmc' = w.binlog_pmc
            /\ sqlite_pmc' = w.sqlite_pmc
            /\ file_main_' = w.file_main_
            /\ being_uploaded_files_' = w.being_uploaded_files_
            /\ uploads' = w.uploads
            /\ net_queries' = w.net_queries
            /\ sqlite_gets' = w.sqlite_gets
            /\ promises' = w.promises
            /\ calls' = w.calls
            /\ issued' = w.issued
            /\ remote_seen' = w.remote_seen
            /\ out' = w.out

Commit(w) == CommitWorld(w) /\ UNCHANGED <<use_file_db, close_flag, is_bot, started>>

\* CHECK(cond)
Check(w, cond) == IF cond THEN w ELSE [w EXCEPT !.fatal = TRUE]

\* a finite map with one more entry; emplace keeps an existing entry
Put(f, k, v) == [x \in DOMAIN f \cup {k} |-> IF x = k THEN v ELSE f[x]]
Emplace(f, k, v) == IF k \in DOMAIN f THEN f ELSE Put(f, k, v)
Erase(f, k) == [x \in DOMAIN f \ {k} |-> f[x]]
EmptyMap == [x \in {} |-> 0]

Op(w, name) == [w EXCEPT !.out.op = name]
\* a handler run on the result of a query
OpResult(w, name, result) == [w EXCEPT !.out.op = name, !.out.result = result]

\* promise.set_value / promise.set_error: the caller sees the outcome, the
\* step reports it
Resolved(p, r) == [promise |-> p, result |-> r]
SetError(w, p, e) ==
    [w EXCEPT !.promises = @ \ {p}, !.out.resolved = @ \cup {Resolved(p, e)},
              !.out.resolved_seq = Append(@, p)]
SetValue(w, p) == SetError(w, p, "ok")
\* a loop over the promises that starts at the last one
RECURSIVE SetAll_last_first(_, _, _)
SetAll_last_first(w, ps, r) ==
    IF ps = << >> THEN w
    ELSE SetError(SetAll_last_first(w, Tail(ps), r), Head(ps), r)

\* for (auto &promise : promises) promise.set_value / set_error
RECURSIVE SetAll(_, _, _)
SetAll(w, ps, r) ==
    IF ps = << >> THEN w
    ELSE SetAll(SetError(w, Head(ps), r), Tail(ps), r)

\* create_handler<Query>(...)->send(...)
SendQuery(w, q) == [w EXCEPT !.net_queries = @ \cup {q}, !.out.sent = Append(@, q)]
Query(kind, p, id, name, type, dark) ==
    [q |-> kind, promise |-> p, id |-> id, name |-> name, type |-> type, dark |-> dark]


(***************************************************************************)
(* The registry.                                                            *)
(***************************************************************************)
\* get_background: the record, or nullptr (absent from the map)
has_background(w, id) == id \in DOMAIN w.backgrounds_

\* FileManager::get_file_view(file_id).file_id()
FileViewId(w, f) == IF f \in DOMAIN w.file_main_ THEN w.file_main_[f] ELSE NoFile

\* FileReferenceManager::create_background_file_source: a valid handle of the id
create_background_file_source(id) == id

\* add_background, the name part: the record keeps the new name and a
\* non-local new name enters the name index (emplace) and leaves the
\* loaded-from-database set
\* an add_background that indexes every name, local ones included
AddBackgroundName_any_name(w, id, result, background) ==
    IF result.name # background.name
    THEN [w EXCEPT
            !.name_to_background_id_ = Emplace(@, background.name, id),
            !.loaded_from_database_backgrounds_ = @ \ {background.name}]
    ELSE w

\* an add_background that drops the name the record had from the index
AddBackgroundName_erases_old_name(w, id, result, background) ==
    IF result.name # background.name
    THEN LET w1 == [w EXCEPT !.name_to_background_id_ = Erase(@, result.name)]
         IN  IF ~is_background_name_local(background.name)
             THEN [w1 EXCEPT
                     !.name_to_background_id_ = Emplace(@, background.name, id),
                     !.loaded_from_database_backgrounds_ = @ \ {background.name}]
             ELSE w1
    ELSE w

AddBackgroundName(w, id, result, background) ==
    IF result.name # background.name
    THEN IF ~is_background_name_local(background.name)
         THEN [w EXCEPT
                 !.name_to_background_id_ = Emplace(@, background.name, id),
                 !.loaded_from_database_backgrounds_ = @ \ {background.name}]
         ELSE w
    ELSE w

\* add_background, the file part, on the record `r` (fields other than the
\* file already merged); returns the world with the record stored
AddBackgroundFile(w, id, result, r, background, file_source_id) ==
    IF result.file_id # background.file_id
    THEN LET changed == /\ file_is_valid(result.file_id)
                        /\ FileViewId(w, result.file_id) # FileViewId(w, background.file_id)
             w1 == IF changed
                   THEN [w EXCEPT !.file_id_to_background_id_ = Erase(@, result.file_id)]
                   ELSE w
             w2 == Check(w1, file_is_valid(result.file_id) => ~is_valid(file_source_id))
             src1 == IF changed THEN 0 ELSE r.file_source_id
             src2 == IF is_valid(file_source_id) THEN file_source_id ELSE src1
             create == file_is_valid(background.file_id) /\ ~is_valid(src2)
             src3 == IF create THEN create_background_file_source(id) ELSE src2
             r2 == [r EXCEPT !.file_id = background.file_id, !.file_source_id = src3]
         IN  [w2 EXCEPT !.backgrounds_ = Put(@, id, r2),
                        !.file_id_to_background_id_ = Emplace(@, background.file_id, id),
                        !.out.new_sources = IF create THEN Append(@, id) ELSE @]
    ELSE [Check(w, ~is_valid(file_source_id)) EXCEPT !.backgrounds_ = Put(@, id, r)]

add_background(w, background) ==
    LET id == background.id
        \* backgrounds_[background.id] default-constructs a missing record
        result == IF has_background(w, id) THEN w.backgrounds_[id] ELSE EmptyBackground
        has_source == id \in DOMAIN w.background_id_to_file_source_id_
        file_source_id == IF has_source THEN w.background_id_to_file_source_id_[id] ELSE 0
        w1 == Check(Check(w, is_valid(id)), has_source => ~is_valid(result.id))
        w2 == IF has_source
              THEN [w1 EXCEPT !.background_id_to_file_source_id_ = Erase(@, id)]
              ELSE w1
        r == [result EXCEPT !.id = id,
                            !.access_hash = background.access_hash,
                            !.is_creator = background.is_creator,
                            !.is_default = background.is_default,
                            !.is_dark = background.is_dark,
                            !.type = background.type,
                            !.name = background.name]
        w3 == AddBackgroundName(w2, id, result, background)
    IN  AddBackgroundFile(w3, id, result, r, background, file_source_id)

(***************************************************************************)
(* The local identifier allocator.                                          *)
(***************************************************************************)
\* a set_max_local_background_id that does not write the key "max_bg_id"
set_max_local_background_id_memory_only(w, background_id) ==
    LET w1 == Check(Check(w, is_local(background_id)),
                    background_id > w.max_local_background_id_)
    IN  [w1 EXCEPT !.max_local_background_id_ = background_id]

set_max_local_background_id(w, background_id) ==
    LET w1 == Check(Check(w, is_local(background_id)),
                    background_id > w.max_local_background_id_)
    IN  [w1 EXCEPT !.max_local_background_id_ = background_id,
                   !.binlog_pmc.max_bg_id = to_string(background_id)]

\* the identifier returned is the new max_local_background_id_
get_next_local_background_id(w) ==
    LET w1 == set_max_local_background_id(w, w.max_local_background_id_ + 1)
    IN  [w1 EXCEPT !.out.new_ids = Append(@, w1.max_local_background_id_),
                   !.issued = @ \cup {w1.max_local_background_id_}]

\* BackgroundFill::is_dark of the fill's colours
fill_is_dark(type) == type.p = 1

\* add_fill_background(fill, is_default, is_dark); the new id is the new
\* max_local_background_id_
add_fill_background3(w, type, is_default, is_dark) ==
    LET w1 == get_next_local_background_id(w)
        background == [EmptyBackground EXCEPT
                          !.id = w1.max_local_background_id_,
                          !.is_creator = TRUE,
                          !.is_default = is_default,
                          !.is_dark = is_dark,
                          !.type = type,
                          !.name = get_link(type)]
    IN  add_background(w1, background)

add_fill_background(w, type) == add_fill_background3(w, type, FALSE, fill_is_dark(type))


(***************************************************************************)
(* Selection slots, their durable records and the update sent to the client *)
(***************************************************************************)
\* td_api::background of a missing record: nullptr
NullBackgroundObject ==
    [id |-> NoId, is_default |-> FALSE, is_dark |-> FALSE, name |-> EmptyName,
     document |-> NoFile, type |-> DefaultType]

\* get_background_object(background_id, for_dark_theme, nullptr)
get_background_object(w, background_id, for_dark_theme) ==
    IF ~has_background(w, background_id) THEN NullBackgroundObject
    ELSE LET background == w.backgrounds_[background_id]
             type == IF background_id = w.set_background_id_[for_dark_theme]
                     THEN w.set_background_type_[for_dark_theme]
                     ELSE IF background_id = w.set_background_id_[~for_dark_theme]
                     THEN w.set_background_type_[~for_dark_theme]
                     ELSE background.type
         IN  [id |-> background.id, is_default |-> background.is_default,
              is_dark |-> background.is_dark, name |-> background.name,
              document |-> background.file_id, type |-> type]

\* send_update_selected_background
send_update_selected_background(w, for_dark_theme) ==
    [w EXCEPT !.out.updates =
        Append(@, [for_dark_theme |-> for_dark_theme,
                   background |-> get_background_object(
                       w, w.set_background_id_[for_dark_theme], for_dark_theme)])]

\* a get_current_state that does not ask whether the client is a bot
get_current_state_for_bots(w, bot) ==
    send_update_selected_background(send_update_selected_background(w, FALSE), TRUE)

\* get_current_state: the updates it puts in the vector it is given
get_current_state(w, bot) ==
    IF bot THEN w
    ELSE send_update_selected_background(send_update_selected_background(w, FALSE), TRUE)

save_background_id(w, for_dark_theme) ==
    LET key == get_background_database_key(for_dark_theme)
        background_id == w.set_background_id_[for_dark_theme]
    IN  IF is_valid(background_id)
        THEN IF has_background(w, background_id)
             THEN [w EXCEPT !.binlog_pmc[key] =
                      StoreLogEvent(w.backgrounds_[background_id],
                                    w.set_background_type_[for_dark_theme]),
                            !.out.saves = Append(@, key)]
             ELSE Check(w, FALSE)
        ELSE [w EXCEPT !.binlog_pmc[key] = << >>, !.out.saves = Append(@, key)]

\* the call with its arguments, as the step reports it
SetCall(w, background_id, type, for_dark_theme) ==
    [w EXCEPT !.out.set_calls =
        Append(@, [id |-> background_id, type |-> type, for_dark_theme |-> for_dark_theme])]

\* a set_background_id that does not compare its arguments with the slot
set_background_id_always_saves(w, background_id, type, for_dark_theme) ==
    LET w1 == [SetCall(w, background_id, type, for_dark_theme) EXCEPT
                  !.set_background_id_[for_dark_theme] = background_id,
                  !.set_background_type_[for_dark_theme] = type]
    IN  send_update_selected_background(save_background_id(w1, for_dark_theme),
                                        for_dark_theme)

\* a set_background_id that changes the slot and does not save it
set_background_id_not_saved(w, background_id, type, for_dark_theme) ==
    IF /\ background_id = w.set_background_id_[for_dark_theme]
       /\ w.set_background_type_[for_dark_theme] = type
    THEN SetCall(w, background_id, type, for_dark_theme)
    ELSE LET w1 == [SetCall(w, background_id, type, for_dark_theme) EXCEPT
                       !.set_background_id_[for_dark_theme] = background_id,
                       !.set_background_type_[for_dark_theme] = type]
         IN  send_update_selected_background(w1, for_dark_theme)

set_background_id(w, background_id, type, for_dark_theme) ==
    IF /\ background_id = w.set_background_id_[for_dark_theme]
       /\ w.set_background_type_[for_dark_theme] = type
    THEN SetCall(w, background_id, type, for_dark_theme)
    ELSE LET w1 == [SetCall(w, background_id, type, for_dark_theme) EXCEPT
                       !.set_background_id_[for_dark_theme] = background_id,
                       !.set_background_type_[for_dark_theme] = type]
         IN  send_update_selected_background(save_background_id(w1, for_dark_theme),
                                             for_dark_theme)

(***************************************************************************)
(* Records received from the server.                                        *)
(***************************************************************************)
\* telegram_api::wallPaper / wallPaperNoFile.  doc is "documentEmpty" or
\* "document"; doc_file is the file DocumentsManager::on_get_document yields
\* (NoFile when it rejects the document); no_settings is settings_ == nullptr
WallPaper(ctor, id, slug, doc, doc_file, is_default, is_pattern, no_settings, settings) ==
    [ctor |-> ctor, id |-> id, access_hash |-> id, slug |-> slug, doc |-> doc,
     doc_file |-> doc_file, is_creator |-> FALSE, is_default |-> is_default,
     is_pattern |-> is_pattern, is_dark |-> FALSE, no_settings |-> no_settings,
     settings |-> settings]

\* on_get_background: the world after it and the identifier it returns
Returns(w, id) == [w |-> w, id |-> id]

on_get_background_no_file(w, wallpaper) ==
    IF wallpaper.no_settings THEN Returns(w, NoId)
    ELSE IF ~wallpaper.is_default THEN Returns(w, NoId)
    ELSE IF ~is_valid(wallpaper.id) \/ is_local(wallpaper.id) THEN Returns(w, NoId)
    ELSE LET type == TypeFromSettings(TRUE, FALSE, wallpaper.settings)
             background == [EmptyBackground EXCEPT
                               !.id = wallpaper.id,
                               !.is_creator = FALSE,
                               !.is_default = TRUE,
                               !.is_dark = wallpaper.is_dark,
                               !.type = type,
                               !.name = get_link(type)]
             w1 == add_background(w, background)
         IN  Returns([w1 EXCEPT !.remote_seen = @ \cup {wallpaper.id}], wallpaper.id)

\* an on_get_background that does not reject an identifier of the local range
on_get_background_file_accepts_local_id(w, expected_background_name, wallpaper, file_db) ==
    IF \/ ~is_valid(wallpaper.id)
       \/ is_background_name_local(wallpaper.slug)
    THEN Returns(w, NoId)
    ELSE IF wallpaper.doc = "documentEmpty" THEN Returns(w, NoId)
    ELSE IF ~file_is_valid(wallpaper.doc_file) THEN Returns(w, NoId)
    ELSE LET background == [EmptyBackground EXCEPT
                               !.id = wallpaper.id,
                               !.access_hash = wallpaper.access_hash,
                               !.is_creator = wallpaper.is_creator,
                               !.is_default = wallpaper.is_default,
                               !.is_dark = wallpaper.is_dark,
                               !.type = TypeFromSettings(FALSE, wallpaper.is_pattern,
                                                         IF wallpaper.no_settings THEN 0
                                                         ELSE wallpaper.settings),
                               !.name = wallpaper.slug,
                               !.file_id = wallpaper.doc_file]
             w1 == add_background(w, background)
             w2 == IF /\ expected_background_name # EmptyName
                      /\ background.name # expected_background_name
                   THEN [w1 EXCEPT !.name_to_background_id_ =
                            Emplace(@, expected_background_name, wallpaper.id)]
                   ELSE w1
             w3 == IF file_db
                   THEN [Check(w2, ~is_background_name_local(background.name)) EXCEPT
                            !.sqlite_pmc = Put(@, background.name, StoreBackground(background))]
                   ELSE w2
         IN  Returns([w3 EXCEPT !.remote_seen = @ \cup {wallpaper.id}], wallpaper.id)

\* an on_get_background that does not look at the slug it received
on_get_background_file_any_slug(w, expected_background_name, wallpaper, file_db) ==
    IF \/ ~is_valid(wallpaper.id)
       \/ is_local(wallpaper.id)
    THEN Returns(w, NoId)
    ELSE IF wallpaper.doc = "documentEmpty" THEN Returns(w, NoId)
    ELSE IF ~file_is_valid(wallpaper.doc_file) THEN Returns(w, NoId)
    ELSE LET background == [EmptyBackground EXCEPT
                               !.id = wallpaper.id,
                               !.access_hash = wallpaper.access_hash,
                               !.is_creator = wallpaper.is_creator,
                               !.is_default = wallpaper.is_default,
                               !.is_dark = wallpaper.is_dark,
                               !.type = TypeFromSettings(FALSE, wallpaper.is_pattern,
                                                         IF wallpaper.no_settings THEN 0
                                                         ELSE wallpaper.settings),
                               !.name = wallpaper.slug,
                               !.file_id = wallpaper.doc_file]
             w1 == add_background(w, background)
             w2 == IF /\ expected_background_name # EmptyName
                      /\ background.name # expected_background_name
                   THEN [w1 EXCEPT !.name_to_background_id_ =
                            Emplace(@, expected_background_name, wallpaper.id)]
                   ELSE w1
             w3 == IF file_db
                   THEN [Check(w2, ~is_background_name_local(background.name)) EXCEPT
                            !.sqlite_pmc = Put(@, background.name, StoreBackground(background))]
                   ELSE w2
         IN  Returns([w3 EXCEPT !.remote_seen = @ \cup {wallpaper.id}], wallpaper.id)

on_get_background_file(w, expected_background_name, wallpaper, file_db) ==
    IF \/ ~is_valid(wallpaper.id)
       \/ is_local(wallpaper.id)
       \/ is_background_name_local(wallpaper.slug)
    THEN Returns(w, NoId)
    ELSE IF wallpaper.doc = "documentEmpty" THEN Returns(w, NoId)
    ELSE IF ~file_is_valid(wallpaper.doc_file) THEN Returns(w, NoId)
    ELSE LET background == [EmptyBackground EXCEPT
                               !.id = wallpaper.id,
                               !.access_hash = wallpaper.access_hash,
                               !.is_creator = wallpaper.is_creator,
                               !.is_default = wallpaper.is_default,
                               !.is_dark = wallpaper.is_dark,
                               !.type = TypeFromSettings(FALSE, wallpaper.is_pattern,
                                                         IF wallpaper.no_settings THEN 0
                                                         ELSE wallpaper.settings),
                               !.name = wallpaper.slug,
                               !.file_id = wallpaper.doc_file]
             w1 == add_background(w, background)
             w2 == IF /\ expected_background_name # EmptyName
                      /\ background.name # expected_background_name
                   THEN [w1 EXCEPT !.name_to_background_id_ =
                            Emplace(@, expected_background_name, wallpaper.id)]
                   ELSE w1
             w3 == IF file_db
                   THEN [Check(w2, ~is_background_name_local(background.name)) EXCEPT
                            !.sqlite_pmc = Put(@, background.name, StoreBackground(background))]
                   ELSE w2
         IN  Returns([w3 EXCEPT !.remote_seen = @ \cup {wallpaper.id}], wallpaper.id)

\* on_get_background(expected_background_id, expected_background_name, wallpaper_ptr);
\* the expected id is only logged
on_get_background(w, expected_background_name, wallpaper, file_db) ==
    LET r == IF wallpaper.ctor = "wallPaperNoFile"
             THEN on_get_background_no_file(w, wallpaper)
             ELSE on_get_background_file(w, expected_background_name, wallpaper, file_db)
    IN  Returns([r.w EXCEPT !.out.got = Append(@, r.id)], r.id)


(***************************************************************************)
(* start_up.                                                                *)
(***************************************************************************)
\* a first loop of start_up that raises the counter in memory only
start_up_fix_max_memory_only(w, for_dark_theme) ==
    LET log_event_string == w.binlog_pmc[get_background_database_key(for_dark_theme)]
    IN  IF log_event_string = << >> THEN w
        ELSE LET background == ParseLogEvent(log_event_string).background_
             IN  IF /\ background.has_new_local_id
                    /\ is_local(background.id)
                    /\ ~has_file(background.type)
                    /\ background.id > w.max_local_background_id_
                 THEN [w EXCEPT !.max_local_background_id_ = background.id]
                 ELSE w

\* first loop of start_up: raise max_local_background_id_ past a stored local id
start_up_fix_max(w, for_dark_theme) ==
    LET log_event_string == w.binlog_pmc[get_background_database_key(for_dark_theme)]
    IN  IF log_event_string = << >> THEN w
        ELSE LET background == ParseLogEvent(log_event_string).background_
             IN  IF /\ background.has_new_local_id
                    /\ is_local(background.id)
                    /\ ~has_file(background.type)
                    /\ background.id > w.max_local_background_id_
                 THEN set_max_local_background_id(w, background.id)
                 ELSE w

\* a second loop of start_up that takes the type of the stored background for
\* the type the slot was set with
start_up_add_restores_entity_type(w, for_dark_theme, log_event_string) ==
    IF log_event_string = << >> THEN send_update_selected_background(w, for_dark_theme)
    ELSE LET log_event == ParseLogEvent(log_event_string)
             parsed == log_event.background_
             fix_id == ~parsed.has_new_local_id /\ ~has_file(parsed.type)
             w1 == IF fix_id THEN get_next_local_background_id(w) ELSE w
             background == IF fix_id
                           THEN [parsed EXCEPT !.has_new_local_id = TRUE,
                                               !.id = w1.max_local_background_id_]
                           ELSE parsed
             w2 == Check(w1, is_valid(background.id))
             mismatch == file_is_valid(background.file_id) # has_file(background.type)
             need_resave == fix_id \/ mismatch
             w3 == IF mismatch THEN w2
                   ELSE add_background(
                            [w2 EXCEPT !.set_background_id_[for_dark_theme] = background.id,
                                       !.set_background_type_[for_dark_theme] = background.type],
                            background)
             w4 == IF need_resave THEN save_background_id(w3, for_dark_theme) ELSE w3
         IN  send_update_selected_background(w4, for_dark_theme)

\* a second loop of start_up that does not save the slot anew after a record
\* it could not load
start_up_add_keeps_broken_record(w, for_dark_theme, log_event_string) ==
    IF log_event_string = << >> THEN send_update_selected_background(w, for_dark_theme)
    ELSE LET log_event == ParseLogEvent(log_event_string)
             parsed == log_event.background_
             fix_id == ~parsed.has_new_local_id /\ ~has_file(parsed.type)
             w1 == IF fix_id THEN get_next_local_background_id(w) ELSE w
             background == IF fix_id
                           THEN [parsed EXCEPT !.has_new_local_id = TRUE,
                                               !.id = w1.max_local_background_id_]
                           ELSE parsed
             w2 == Check(w1, is_valid(background.id))
             mismatch == file_is_valid(background.file_id) # has_file(background.type)
             need_resave == fix_id
             w3 == IF mismatch THEN w2
                   ELSE add_background(
                            [w2 EXCEPT !.set_background_id_[for_dark_theme] = background.id,
                                       !.set_background_type_[for_dark_theme] = log_event.set_type_],
                            background)
             w4 == IF need_resave THEN save_background_id(w3, for_dark_theme) ELSE w3
         IN  send_update_selected_background(w4, for_dark_theme)

\* second loop of start_up, on the log event string read in the first loop
start_up_add(w, for_dark_theme, log_event_string) ==
    IF log_event_string = << >> THEN send_update_selected_background(w, for_dark_theme)
    ELSE LET log_event == ParseLogEvent(log_event_string)
             parsed == log_event.background_
             fix_id == ~parsed.has_new_local_id /\ ~has_file(parsed.type)
             w1 == IF fix_id THEN get_next_local_background_id(w) ELSE w
             background == IF fix_id
                           THEN [parsed EXCEPT !.has_new_local_id = TRUE,
                                               !.id = w1.max_local_background_id_]
                           ELSE parsed
             w2 == Check(w1, is_valid(background.id))
             mismatch == file_is_valid(background.file_id) # has_file(background.type)
             need_resave == fix_id \/ mismatch
             w3 == IF mismatch THEN w2
                   ELSE add_background(
                            [w2 EXCEPT !.set_background_id_[for_dark_theme] = background.id,
                                       !.set_background_type_[for_dark_theme] = log_event.set_type_],
                            background)
             w4 == IF need_resave THEN save_background_id(w3, for_dark_theme) ELSE w3
         IN  send_update_selected_background(w4, for_dark_theme)

start_up(w) ==
    LET w0 == [w EXCEPT !.max_local_background_id_ = to_integer(w.binlog_pmc.max_bg_id)]
        w1 == start_up_fix_max(start_up_fix_max(w0, FALSE), TRUE)
        w2 == start_up_add(w1, FALSE, w.binlog_pmc.bg)
    IN  start_up_add(w2, TRUE, w.binlog_pmc.bgd)

(***************************************************************************)
(* The catalog fetch.                                                       *)
(***************************************************************************)
\* a get_backgrounds that sends a query for every caller
get_backgrounds_always_sends(w, promise) ==
    SendQuery([w EXCEPT !.pending_get_backgrounds_queries_ = Append(@, promise)],
              Query("GetBackgroundsQuery", promise, NoId, EmptyName, DefaultType, FALSE))

get_backgrounds(w, promise) ==
    LET w1 == [w EXCEPT !.pending_get_backgrounds_queries_ = Append(@, promise)]
    IN  IF Len(w1.pending_get_backgrounds_queries_) = 1
        THEN SendQuery(w1, Query("GetBackgroundsQuery", promise, NoId, EmptyName,
                                 DefaultType, FALSE))
        ELSE w1

\* the loop over wallpapers->wallpapers_
RECURSIVE on_get_backgrounds_loop(_, _, _)
on_get_backgrounds_loop(w, wallpapers, file_db) ==
    IF wallpapers = << >> THEN w
    ELSE LET r == on_get_background(w, EmptyName, Head(wallpapers), file_db)
             w1 == IF is_valid(r.id)
                   THEN [r.w EXCEPT !.installed_background_ids_ = Append(@, r.id)]
                   ELSE r.w
         IN  on_get_backgrounds_loop(w1, Tail(wallpapers), file_db)

\* an on_get_backgrounds that takes "not modified" for an empty list
on_get_backgrounds_not_modified_as_empty(w, result, file_db) ==
    LET waiters == w.pending_get_backgrounds_queries_
        w1 == [Check(w, waiters # << >>) EXCEPT !.pending_get_backgrounds_queries_ = << >>]
    IN  IF result.kind = "error" THEN SetAll(w1, waiters, result.error)
        ELSE SetAll(on_get_backgrounds_loop(
                        [w1 EXCEPT !.installed_background_ids_ = << >>],
                        result.wallpapers, file_db),
                    waiters, "ok")

\* an on_get_backgrounds that clears the installed list before it looks at the result
on_get_backgrounds_clears_first(w, result, file_db) ==
    LET waiters == w.pending_get_backgrounds_queries_
        w1 == [Check(w, waiters # << >>) EXCEPT !.pending_get_backgrounds_queries_ = << >>,
                                                !.installed_background_ids_ = << >>]
    IN  IF result.kind = "error" THEN SetAll(w1, waiters, result.error)
        ELSE IF result.kind = "notModified" THEN SetAll(w1, waiters, "ok")
        ELSE SetAll(on_get_backgrounds_loop(w1, result.wallpapers, file_db), waiters, "ok")

\* an on_get_backgrounds that appends to the installed list it had
on_get_backgrounds_keeps_old(w, result, file_db) ==
    LET waiters == w.pending_get_backgrounds_queries_
        w1 == [Check(w, waiters # << >>) EXCEPT !.pending_get_backgrounds_queries_ = << >>]
    IN  IF result.kind = "error" THEN SetAll(w1, waiters, result.error)
        ELSE IF result.kind = "notModified" THEN SetAll(w1, waiters, "ok")
        ELSE SetAll(on_get_backgrounds_loop(w1, result.wallpapers, file_db), waiters, "ok")

\* result: [kind |-> "error", error], [kind |-> "notModified"] or
\* [kind |-> "wallPapers", wallpapers]
on_get_backgrounds(w, result, file_db) ==
    LET waiters == w.pending_get_backgrounds_queries_
        w1 == [Check(w, waiters # << >>) EXCEPT !.pending_get_backgrounds_queries_ = << >>]
    IN  IF result.kind = "error" THEN SetAll(w1, waiters, result.error)
        ELSE IF result.kind = "notModified" THEN SetAll(w1, waiters, "ok")
        ELSE SetAll(on_get_backgrounds_loop(
                        [w1 EXCEPT !.installed_background_ids_ = << >>],
                        result.wallpapers, file_db),
                    waiters, "ok")


(***************************************************************************)
(* Resolution by name.                                                      *)
(***************************************************************************)
\* BackgroundType::apply_parameters_from_link: the parameters are those of
\* the link's query part, the defaults when it has none
ParamOfLink(name) ==
    IF HasChar(name, "?") /\ Find(name, "?") + 2 <= Len(name) /\ name[Find(name, "?") + 2] = "1"
    THEN 1 ELSE 0
apply_parameters_from_link(type, name) == [type EXCEPT !.p = ParamOfLink(name)]

\* BackgroundFill::get_background_fill(name): the fill a name describes, or an error
IsFillName(name) == Len(name) = 2 /\ name[1] = "f" /\ name[2] \in {"0", "1"}
FillOfName(name) == BackgroundType("Fill", IF name[2] = "1" THEN 1 ELSE 0)

Returned(w, id, type) == [w EXCEPT !.out.ret = [id |-> id, type |-> type]]

reload_background_from_server(w, background_name, promise, closing) ==
    IF closing THEN SetError(w, promise, "500:Request aborted")
    ELSE SendQuery(w, Query("GetBackgroundQuery", promise, NoId, background_name,
                            DefaultType, FALSE))

\* a search_background that asks the server without asking the database
search_background_remote_first(w, name, promise, file_db, closing) ==
    LET slug == BeforeParams(name)
    IN  IF slug \in DOMAIN w.name_to_background_id_
        THEN LET id == w.name_to_background_id_[slug]
                 w1 == Check(Check(w, ~is_background_name_local(slug)), has_background(w, id))
             IN  IF w1.fatal THEN w1
                 ELSE Returned(SetValue(w1, promise), id,
                               apply_parameters_from_link(w.backgrounds_[id].type, name))
        ELSE IF slug = EmptyName
        THEN SetError(w, promise, "400:Background name must be non-empty")
        ELSE IF is_background_name_local(slug)
        THEN IF ~IsFillName(name)
             THEN SetError(w, promise, "400:WRONG_BACKGROUND")
             ELSE LET w1 == add_fill_background(w, FillOfName(name))
                  IN  Returned(SetValue(w1, promise), w1.max_local_background_id_,
                               FillOfName(name))
        ELSE reload_background_from_server(w, slug, promise, closing)

search_background(w, name, promise, file_db, closing) ==
    LET slug == BeforeParams(name)
    IN  IF slug \in DOMAIN w.name_to_background_id_
        THEN LET id == w.name_to_background_id_[slug]
                 w1 == Check(Check(w, ~is_background_name_local(slug)), has_background(w, id))
             IN  IF w1.fatal THEN w1
                 ELSE Returned(SetValue(w1, promise), id,
                               apply_parameters_from_link(w.backgrounds_[id].type, name))
        ELSE IF slug = EmptyName
        THEN SetError(w, promise, "400:Background name must be non-empty")
        ELSE IF is_background_name_local(slug)
        THEN IF ~IsFillName(name)
             THEN SetError(w, promise, "400:WRONG_BACKGROUND")
             ELSE LET w1 == add_fill_background(w, FillOfName(name))
                  IN  Returned(SetValue(w1, promise), w1.max_local_background_id_,
                               FillOfName(name))
        ELSE IF file_db /\ slug \notin w.loaded_from_database_backgrounds_
        THEN LET queries == IF slug \in DOMAIN w.being_loaded_from_database_backgrounds_
                            THEN w.being_loaded_from_database_backgrounds_[slug]
                            ELSE << >>
                 w1 == [w EXCEPT !.being_loaded_from_database_backgrounds_ =
                                     Put(@, slug, Append(queries, promise))]
             IN  IF Len(queries) = 0
                 THEN [w1 EXCEPT
                         !.sqlite_gets = @ \cup
                             {[name |-> slug, by |-> promise,
                               value |-> IF slug \in DOMAIN w.sqlite_pmc
                                         THEN <<w.sqlite_pmc[slug]>> ELSE << >>]},
                         !.out.db_gets = Append(@, slug)]
                 ELSE w1
        ELSE reload_background_from_server(w, slug, promise, closing)

\* an on_load_background_from_database that adds whatever record it parsed
on_load_background_from_database_any_record(w, name, value, closing) ==
    IF closing THEN w
    ELSE IF name \notin DOMAIN w.being_loaded_from_database_backgrounds_
    THEN Check(w, FALSE)
    ELSE LET waiters == w.being_loaded_from_database_backgrounds_[name]
             w1 == [w EXCEPT
                       !.being_loaded_from_database_backgrounds_ = Erase(@, name),
                       !.loaded_from_database_backgrounds_ = @ \cup {name}]
             w2 == IF name \notin DOMAIN w1.name_to_background_id_ /\ value # << >>
                   THEN add_background(w1, ParseBackground(value[1]))
                   ELSE w1
         IN  SetAll(w2, waiters, "ok")

\* an on_load_background_from_database that indexes the name before it looks
\* at the record
on_load_background_from_database_indexes_first(w, name, value, closing) ==
    IF closing THEN w
    ELSE IF name \notin DOMAIN w.being_loaded_from_database_backgrounds_
    THEN Check(w, FALSE)
    ELSE LET waiters == w.being_loaded_from_database_backgrounds_[name]
             w1 == [Check(Check(w, waiters # << >>), ~is_background_name_local(name)) EXCEPT
                       !.being_loaded_from_database_backgrounds_ = Erase(@, name),
                       !.loaded_from_database_backgrounds_ = @ \cup {name}]
             w2 == IF name \notin DOMAIN w1.name_to_background_id_ /\ value # << >>
                   THEN LET background == ParseBackground(value[1])
                            w3 == [w1 EXCEPT !.name_to_background_id_ =
                                      Emplace(@, name, background.id)]
                        IN  IF \/ ~has_file(background.type)
                               \/ ~file_is_valid(background.file_id)
                               \/ ~is_valid(background.id)
                            THEN w3
                            ELSE add_background(w3, background)
                   ELSE w1
         IN  SetAll(w2, waiters, "ok")

\* value: the stored string, empty when the key is absent
on_load_background_from_database(w, name, value, closing) ==
    IF closing THEN w
    ELSE IF name \notin DOMAIN w.being_loaded_from_database_backgrounds_
    THEN Check(w, FALSE)
    ELSE LET waiters == w.being_loaded_from_database_backgrounds_[name]
             w1 == [Check(Check(w, waiters # << >>), ~is_background_name_local(name)) EXCEPT
                       !.being_loaded_from_database_backgrounds_ = Erase(@, name),
                       !.loaded_from_database_backgrounds_ = @ \cup {name}]
             w2 == IF name \notin DOMAIN w1.name_to_background_id_ /\ value # << >>
                   THEN LET background == ParseBackground(value[1])
                        IN  IF \/ ~has_file(background.type)
                               \/ ~file_is_valid(background.file_id)
                               \/ ~is_valid(background.id)
                            THEN w1
                            ELSE add_background(
                                     IF background.name # name
                                     THEN [w1 EXCEPT !.name_to_background_id_ =
                                              Emplace(@, name, background.id)]
                                     ELSE w1,
                                     background)
                   ELSE w1
         IN  SetAll(w2, waiters, "ok")

\* GetBackgroundQuery::on_result / on_error
on_get_background_query_result(w, query, result, file_db) ==
    IF result.kind = "error" THEN SetError(w, query.promise, result.error)
    ELSE SetValue(on_get_background(w, query.name, result.wallpaper, file_db).w, query.promise)


(***************************************************************************)
(* Setting, removing and resetting backgrounds.                             *)
(***************************************************************************)
\* set_background(background_id, type, for_dark_theme, promise)
set_background_by_id(w, background_id, requested, for_dark_theme, promise) ==
    IF ~has_background(w, background_id)
    THEN SetError(w, promise, "400:Background to set not found")
    ELSE LET background == w.backgrounds_[background_id]
             type == IF ~has_file(requested) THEN background.type ELSE requested
         IN  IF has_file(requested) /\ has_equal_type(background.type, requested)
             THEN SetError(w, promise, "400:Background type mismatch")
             ELSE IF /\ w.set_background_id_[for_dark_theme] = background_id
                     /\ w.set_background_type_[for_dark_theme] = type
             THEN Returned(SetValue(w, promise), background_id, type)
             ELSE IF ~has_file(type)
             THEN Returned(SetValue(set_background_id(w, background_id, type, for_dark_theme),
                                    promise),
                           background_id, type)
             ELSE SendQuery(w, Query("InstallBackgroundQuery", promise, background_id,
                                     EmptyName, type, for_dark_theme))

(***************************************************************************)
(* Uploading a local file.                                                  *)
(***************************************************************************)
\* Status::Error(code, message), written as the other errors of the model
StatusError(code, message) ==
    CASE code = 400 /\ message = "FILE_PARTS_INVALID" -> "400:FILE_PARTS_INVALID"
      [] code = 500 /\ message = "Canceled" -> "500:Canceled"
      [] code = 0 /\ message = "Canceled" -> "0:Canceled"
      [] code = 429 /\ message = "Too Many Requests" -> "429:Too Many Requests"
      [] code = 500 /\ message = "Too Many Requests" -> "500:Too Many Requests"
      [] OTHER -> "500:Internal"

\* prepare_input_file: the file id of the input file, or an error
\* when the file manager knows no such file, the file is encrypted or it has
\* neither a local nor a generate location
prepare_input_file(input_file) ==
    CASE input_file.status = "unknown" -> [error |-> "400:File not found", file_id |-> NoFile]
      [] input_file.status = "encrypted" ->
            [error |-> "400:Can't use encrypted file", file_id |-> NoFile]
      [] input_file.status = "no_location" ->
            [error |-> "400:Need local or generate location to upload background",
             file_id |-> NoFile]
      [] OTHER -> [error |-> "ok", file_id |-> input_file.file_id]

\* FileManager::dup_file_id: a new FileId of the same file
NextFileId(w) == Cardinality(DOMAIN w.file_main_) + 1
dup_file_id(w, file_id) == [w EXCEPT !.file_main_ = Put(@, NextFileId(w), FileViewId(w, file_id))]

\* FileManager::upload(file_id, callback, 1, 0)
upload(w, file_id) ==
    [w EXCEPT !.uploads = @ \cup {file_id}, !.out.uploads = Append(@, file_id)]

\* FileManager::cancel_upload(file_id)
cancel_upload(w, file_id) ==
    [w EXCEPT !.uploads = @ \ {file_id}, !.out.cancels = Append(@, file_id)]

\* FileManager::delete_partial_remote_location(file_id)
delete_partial_remote_location(w, file_id) ==
    [w EXCEPT !.out.deleted_partial = Append(@, file_id)]

\* FileManager::merge(x_file_id, y_file_id): every FileId of the second file
\* reads as the first file afterwards
merge(w, x_file_id, y_file_id) ==
    LET x == FileViewId(w, x_file_id)
        y == FileViewId(w, y_file_id)
    IN  [w EXCEPT !.file_main_ = [f \in DOMAIN @ |-> IF @[f] = y THEN x ELSE @[f]],
                  !.out.merges = Append(@, <<x_file_id, y_file_id>>)]

PendingUpload(type, for_dark_theme, promise) ==
    [type |-> type, for_dark_theme |-> for_dark_theme, promise |-> promise]

upload_background_file(w, file_id, type, for_dark_theme, promise) ==
    LET upload_file_id == NextFileId(w)
        w1 == dup_file_id(w, file_id)
        w2 == [w1 EXCEPT !.being_uploaded_files_ =
                            Put(@, upload_file_id, PendingUpload(type, for_dark_theme, promise))]
    IN  upload(w2, upload_file_id)

\* input_file is "null" (nullptr: the file is already on the server) or
\* "inputFile"
do_upload_background_file(w, file_id, type, for_dark_theme, input_file, promise) ==
    IF input_file = "null"
    THEN LET main_file_id == FileViewId(w, file_id)
         IN  IF main_file_id \in DOMAIN w.file_id_to_background_id_
             THEN \* the identifier set_background returns is dropped
                  [set_background_by_id(w, w.file_id_to_background_id_[main_file_id],
                                        type, for_dark_theme, promise)
                     EXCEPT !.out.ret = w.out.ret]
             ELSE SetError(w, promise, "500:Failed to reupload background")
    ELSE SendQuery(w, [Query("UploadBackgroundQuery", promise, NoId, EmptyName, type,
                             for_dark_theme) EXCEPT !.id = file_id])

LookUp(w, file_id) == [w EXCEPT !.out.looked_up = Append(@, file_id)]

on_upload_background_file(w, file_id, input_file) ==
    LET w1 == Check(LookUp(w, file_id), file_id \in DOMAIN w.being_uploaded_files_)
    IN  IF w1.fatal THEN w1
        ELSE LET it == w.being_uploaded_files_[file_id]
                 w2 == [w1 EXCEPT !.being_uploaded_files_ = Erase(@, file_id)]
             IN  do_upload_background_file(w2, file_id, it.type, it.for_dark_theme,
                                           input_file, it.promise)

\* an on_upload_background_file_error that does not look at the close flag
on_upload_background_file_error_when_closing(w, file_id, status, closing) ==
    LET w1 == Check(LookUp(w, file_id), file_id \in DOMAIN w.being_uploaded_files_)
    IN  IF w1.fatal THEN w1
        ELSE LET promise == w.being_uploaded_files_[file_id].promise
                 w2 == [w1 EXCEPT !.being_uploaded_files_ = Erase(@, file_id)]
             IN  SetError(w2, promise,
                          StatusError(IF status.code > 0 THEN status.code ELSE 500,
                                      status.message))

\* an on_upload_background_file_error that keeps the record of the upload
on_upload_background_file_error_keeps_record(w, file_id, status, closing) ==
    IF closing THEN w
    ELSE LET w1 == Check(LookUp(w, file_id), file_id \in DOMAIN w.being_uploaded_files_)
         IN  IF w1.fatal THEN w1
             ELSE LET promise == w.being_uploaded_files_[file_id].promise
                  IN  SetError(w1, promise,
                               StatusError(IF status.code > 0 THEN status.code ELSE 500,
                                           status.message))

on_upload_background_file_error(w, file_id, status, closing) ==
    IF closing THEN w
    ELSE LET w1 == Check(LookUp(w, file_id), file_id \in DOMAIN w.being_uploaded_files_)
         IN  IF w1.fatal THEN w1
             ELSE LET promise == w.being_uploaded_files_[file_id].promise
                      w2 == [w1 EXCEPT !.being_uploaded_files_ = Erase(@, file_id)]
                  IN  SetError(w2, promise,
                               StatusError(IF status.code > 0 THEN status.code ELSE 500,
                                           status.message))

\* on_uploaded_background_file after its call of on_get_background, without
\* the merge of the two files
on_uploaded_background_no_merge(w1, background_id, file_id, type, for_dark_theme, promise) ==
    IF ~is_valid(background_id)
    THEN SetError(cancel_upload(w1, file_id), promise, "500:Receive wrong uploaded background")
    ELSE IF ~has_background(w1, background_id)
    THEN Check(w1, FALSE)
    ELSE IF ~file_is_valid(w1.backgrounds_[background_id].file_id)
    THEN SetError(cancel_upload(w1, file_id), promise,
                  "500:Receive wrong uploaded background without file")
    ELSE SetValue(set_background_id(w1, background_id, type, for_dark_theme), promise)

\* on_uploaded_background_file after its call of on_get_background, taking
\* an entity without a file as well
on_uploaded_background_without_file(w1, background_id, file_id, type, for_dark_theme, promise) ==
    IF ~is_valid(background_id)
    THEN SetError(cancel_upload(w1, file_id), promise, "500:Receive wrong uploaded background")
    ELSE IF ~has_background(w1, background_id)
    THEN Check(w1, FALSE)
    ELSE SetValue(set_background_id(merge(w1, w1.backgrounds_[background_id].file_id, file_id),
                                    background_id, type, for_dark_theme),
                  promise)

\* on_uploaded_background_file after its call of on_get_background, which
\* gave the world w1 and background_id
on_uploaded_background(w1, background_id, file_id, type, for_dark_theme, promise) ==
    IF ~is_valid(background_id)
    THEN SetError(cancel_upload(w1, file_id), promise, "500:Receive wrong uploaded background")
    ELSE IF ~has_background(w1, background_id)
    THEN Check(w1, FALSE)
    ELSE IF ~file_is_valid(w1.backgrounds_[background_id].file_id)
    THEN SetError(cancel_upload(w1, file_id), promise,
                  "500:Receive wrong uploaded background without file")
    ELSE SetValue(set_background_id(merge(w1, w1.backgrounds_[background_id].file_id, file_id),
                                    background_id, type, for_dark_theme),
                  promise)

\* an on_uploaded_background_file that does not merge the two files
on_uploaded_background_file_no_merge(w, file_id, type, for_dark_theme, wallpaper, promise, file_db) ==
    LET got == on_get_background(w, EmptyName, wallpaper, file_db)
    IN  on_uploaded_background_no_merge(got.w, got.id, file_id, type, for_dark_theme, promise)

on_uploaded_background_file(w, file_id, type, for_dark_theme, wallpaper, promise, file_db) ==
    LET got == on_get_background(w, EmptyName, wallpaper, file_db)
    IN  on_uploaded_background(got.w, got.id, file_id, type, for_dark_theme, promise)

\* UploadBackgroundQuery::on_result and on_error; no status of the model is a
\* FILE_PART_*_MISSING
on_upload_background_query_result(w, query, result, file_db, closing) ==
    IF result.kind = "error"
    THEN LET status == result.status
             w1 == IF status.code # 429 /\ status.code < 500 /\ ~closing
                   THEN delete_partial_remote_location(w, query.id)
                   ELSE w
         IN  SetError(cancel_upload(w1, query.id), query.promise,
                      StatusError(status.code, status.message))
    ELSE on_uploaded_background_file(w, query.id, query.type, query.dark, result.wallpaper,
                                     query.promise, file_db)

\* a set_background that uploads every local file it is given
set_background_local_always_uploads(w, input_file, type_null, given_type, for_dark_theme, promise) ==
    LET type == IF type_null THEN DefaultType ELSE given_type
        r_file_id == prepare_input_file(input_file)
    IN  IF ~has_file(type)
        THEN SetError(w, promise, "400:Can't specify local file for the background type")
        ELSE IF r_file_id.error # "ok"
        THEN SetError(w, promise, r_file_id.error)
        ELSE upload_background_file(w, r_file_id.file_id, type, for_dark_theme, promise)

\* set_background(input_background, ...) for an inputBackgroundLocal
set_background_local(w, input_file, type_null, given_type, for_dark_theme, promise) ==
    LET type == IF type_null THEN DefaultType ELSE given_type
        r_file_id == prepare_input_file(input_file)
        file_id == r_file_id.file_id
    IN  IF ~has_file(type)
        THEN SetError(w, promise, "400:Can't specify local file for the background type")
        ELSE IF r_file_id.error # "ok"
        THEN SetError(w, promise, r_file_id.error)
        ELSE IF file_id \in DOMAIN w.file_id_to_background_id_
        THEN set_background_by_id(w, w.file_id_to_background_id_[file_id], type,
                                  for_dark_theme, promise)
        ELSE upload_background_file(w, file_id, type, for_dark_theme, promise)

\* set_background(input_background, background_type, for_dark_theme, promise);
\* type_null is background_type == nullptr
set_background(w, input, type_null, given_type, for_dark_theme, promise) ==
    LET type == IF type_null THEN DefaultType ELSE given_type
    IN  IF input.kind = "null"
        THEN IF type_null
             THEN SetValue(set_background_id(w, NoId, DefaultType, for_dark_theme), promise)
             ELSE IF has_file(type)
             THEN SetError(w, promise,
                           "400:Input background must be non-empty for the background type")
             ELSE LET w1 == add_fill_background(w, type)
                      background_id == w1.max_local_background_id_
                  IN  Returned(SetValue(set_background_id(w1, background_id, type,
                                                          for_dark_theme),
                                        promise),
                               background_id, type)
        ELSE IF input.kind = "local"
        THEN set_background_local(w, input.file, type_null, given_type, for_dark_theme,
                                  promise)
        ELSE set_background_by_id(w, input.id, type, for_dark_theme, promise)

\* result is "ok" or the error of the query
\* an on_installed_background that puts a new identifier at the end of the list
on_installed_background_appends(w, background_id, type, for_dark_theme, result, promise) ==
    IF result # "ok" THEN SetError(w, promise, result)
    ELSE LET w1 == IF \E i \in 1..Len(w.installed_background_ids_) :
                          w.installed_background_ids_[i] = background_id
                   THEN w
                   ELSE [w EXCEPT !.installed_background_ids_ = Append(@, background_id)]
         IN  SetValue(set_background_id(w1, background_id, type, for_dark_theme), promise)

\* an on_installed_background that drops the answer to a call made before a
\* call that was answered already
on_installed_background_in_call_order(w, background_id, type, for_dark_theme, result, promise) ==
    IF result # "ok" THEN SetError(w, promise, result)
    ELSE IF \E p \in (promise + 1)..w.calls : p \notin w.promises
    THEN SetValue(w, promise)
    ELSE LET w1 == IF \E i \in 1..Len(w.installed_background_ids_) :
                          w.installed_background_ids_[i] = background_id
                   THEN w
                   ELSE [w EXCEPT !.installed_background_ids_ = <<background_id>> \o @]
         IN  SetValue(set_background_id(w1, background_id, type, for_dark_theme), promise)

on_installed_background(w, background_id, type, for_dark_theme, result, promise) ==
    IF result # "ok" THEN SetError(w, promise, result)
    ELSE LET w1 == IF \E i \in 1..Len(w.installed_background_ids_) :
                          w.installed_background_ids_[i] = background_id
                   THEN w
                   ELSE [w EXCEPT !.installed_background_ids_ = <<background_id>> \o @]
         IN  SetValue(set_background_id(w1, background_id, type, for_dark_theme), promise)

\* a remove_background that sends its query before it looks the background up
remove_background_sends_first(w, background_id, promise) ==
    LET w1 == SendQuery(w, Query("UnsaveBackgroundQuery", promise, background_id,
                                 EmptyName, DefaultType, FALSE))
    IN  IF ~has_background(w, background_id)
        THEN SetError(w1, promise, "400:Background not found")
        ELSE w1

\* remove_background: a local fill needs no query, its result is delivered
\* through the same closure
remove_background(w, background_id, promise) ==
    IF ~has_background(w, background_id)
    THEN SetError(w, promise, "400:Background not found")
    ELSE LET background == w.backgrounds_[background_id]
         IN  IF ~has_file(background.type) /\ is_local(background.id)
             THEN [w EXCEPT !.net_queries = @ \cup
                      {Query("RemovedLocally", promise, background_id, EmptyName,
                             DefaultType, FALSE)}]
             ELSE SendQuery(w, Query("UnsaveBackgroundQuery", promise, background_id,
                                     EmptyName, DefaultType, FALSE))

\* td::remove(installed_background_ids_, background_id)
Remove(seq, x) == SelectSeq(seq, LAMBDA y : y # x)

\* an on_removed_background that looks at the light slot only
on_removed_background_light_only(w, background_id, result, promise) ==
    IF result # "ok" THEN SetError(w, promise, result)
    ELSE LET w1 == [w EXCEPT !.installed_background_ids_ = Remove(@, background_id)]
             w2 == IF background_id = w1.set_background_id_[FALSE]
                   THEN set_background_id(w1, NoId, DefaultType, FALSE) ELSE w1
         IN  SetValue(w2, promise)

on_removed_background(w, background_id, result, promise) ==
    IF result # "ok" THEN SetError(w, promise, result)
    ELSE LET w1 == [w EXCEPT !.installed_background_ids_ = Remove(@, background_id)]
             w2 == IF background_id = w1.set_background_id_[FALSE]
                   THEN set_background_id(w1, NoId, DefaultType, FALSE) ELSE w1
             w3 == IF background_id = w2.set_background_id_[TRUE]
                   THEN set_background_id(w2, NoId, DefaultType, TRUE) ELSE w2
         IN  SetValue(w3, promise)

reset_backgrounds(w, promise) ==
    SendQuery(w, Query("ResetBackgroundsQuery", promise, NoId, EmptyName, DefaultType, FALSE))

\* an on_reset_background that empties the installed list before it looks at
\* the result
on_reset_background_clears_first(w, result, promise) ==
    LET w1 == [w EXCEPT !.installed_background_ids_ = << >>]
    IN  IF result # "ok" THEN SetError(w1, promise, result)
        ELSE LET w2 == set_background_id(w1, NoId, DefaultType, FALSE)
             IN  SetValue(set_background_id(w2, NoId, DefaultType, TRUE), promise)

on_reset_background(w, result, promise) ==
    IF result # "ok" THEN SetError(w, promise, result)
    ELSE LET w1 == [w EXCEPT !.installed_background_ids_ = << >>]
             w2 == set_background_id(w1, NoId, DefaultType, FALSE)
         IN  SetValue(set_background_id(w2, NoId, DefaultType, TRUE), promise)


(***************************************************************************)
(* Inputs and environment.                                                  *)
(***************************************************************************)
MaxFiles == 2
FileIds == 1..MaxFiles

SlugAWithParams == SlugA \o <<"?", "1">>
FillName1 == <<"f", "1">>
\* a long name with characters outside [A-Za-z0-9_-]
NotBase64Name == Rep("#", 14)
SearchNames == {EmptyName, SlugA, SlugAWithParams, SlugB, FillName1, NotBase64Name}

NetError == "420:FLOOD_WAIT"

WpA == WallPaper("wallPaper", RemoteId1, SlugA, "document", 1, FALSE, FALSE, TRUE, 0)
WpB == WallPaper("wallPaper", RemoteId2, SlugB, "document", MaxFiles, FALSE, TRUE, FALSE, 1)
WpLocalId == WallPaper("wallPaper", 1, SlugB, "document", MaxFiles, FALSE, FALSE, TRUE, 0)
WpNoFile == WallPaper("wallPaperNoFile", RemoteId2, EmptyName, "documentEmpty", NoFile,
                      TRUE, FALSE, FALSE, 1)
WallPapers == {WpA, WpB, WpLocalId, WpNoFile}
\* the background of WpA with another document: the file that WpB has too
WpAMoved == WallPaper("wallPaper", RemoteId1, SlugA, "document", MaxFiles, FALSE, FALSE, TRUE, 0)
\* the background of WpA under another slug
WpARenamed == WallPaper("wallPaper", RemoteId1, SlugB, "document", 1, FALSE, FALSE, TRUE, 0)
\* answers on_get_background discards: no identifier, an empty slug, a slug
\* that reads as a fill, an empty document, a document without a usable file,
\* and a wallPaperNoFile without settings or without the default flag
WpNoId == WallPaper("wallPaper", NoId, SlugA, "document", 1, FALSE, FALSE, TRUE, 0)
WpEmptySlug == WallPaper("wallPaper", RemoteId1, EmptyName, "document", 1, FALSE, FALSE, TRUE, 0)
WpLocalSlug == WallPaper("wallPaper", RemoteId1, FillName1, "document", 1, FALSE, FALSE, TRUE, 0)
WpEmptyDocument ==
    WallPaper("wallPaper", RemoteId1, SlugA, "documentEmpty", NoFile, FALSE, FALSE, TRUE, 0)
WpBadDocument ==
    WallPaper("wallPaper", RemoteId1, SlugA, "document", NoFile, FALSE, FALSE, TRUE, 0)
WpNoSettings ==
    WallPaper("wallPaperNoFile", RemoteId2, EmptyName, "documentEmpty", NoFile,
              TRUE, FALSE, TRUE, 0)
WpNotDefault ==
    WallPaper("wallPaperNoFile", RemoteId2, EmptyName, "documentEmpty", NoFile,
              FALSE, FALSE, FALSE, 1)
DiscardedWallPapers ==
    {WpNoId, WpEmptySlug, WpLocalSlug, WpEmptyDocument, WpBadDocument, WpNoSettings,
     WpNotDefault}

RECURSIVE SeqsUpTo(_, _)
SeqsUpTo(S, n) ==
    IF n = 0 THEN {<< >>}
    ELSE LET shorter == SeqsUpTo(S, n - 1)
         IN  shorter \cup {Append(q, x) : q \in shorter, x \in S}

CatalogResults ==
    {[kind |-> "error", error |-> NetError, wallpapers |-> << >>],
     [kind |-> "notModified", error |-> "ok", wallpapers |-> << >>]}
    \cup {[kind |-> "wallPapers", error |-> "ok", wallpapers |-> ws] :
             ws \in SeqsUpTo(WallPapers, MaxCatalog)}

GetBackgroundResults ==
    {[kind |-> "error", error |-> NetError, wallpaper |-> WpA]}
    \cup {[kind |-> "wallPaper", error |-> "ok", wallpaper |-> wp] :
             wp \in WallPapers \cup DiscardedWallPapers \cup {WpAMoved, WpARenamed}}

\* Selection records a previous run may have left in the binlog: none, a fill
\* stored before local ids were introduced, a fill with a local id, a
\* file-backed background of the server, and a record whose type has a file
\* but whose document is missing
StoredFill(id, has_new_local_id) ==
    StoreLogEvent([EmptyBackground EXCEPT !.id = id, !.is_creator = TRUE,
                                          !.has_new_local_id = has_new_local_id,
                                          !.type = BackgroundType("Fill", 1),
                                          !.name = get_link(BackgroundType("Fill", 1))],
                  BackgroundType("Fill", 1))
StoredFile(id, slug, file_id, document_ok) ==
    StoreLogEvent([EmptyBackground EXCEPT !.id = id, !.access_hash = id, !.name = slug,
                                          !.file_id = IF document_ok THEN file_id ELSE NoFile,
                                          !.type = BackgroundType("Wallpaper", 0)],
                  BackgroundType("Wallpaper", 1))
StoredSelections ==
    {<< >>, StoredFill(RemoteId2, FALSE), StoredFill(2, TRUE),
     StoredFile(RemoteId1, SlugA, 1, TRUE), StoredFile(RemoteId1, SlugA, 1, FALSE)}
StoredMaxIds == {<< >>, to_string(1)}

(***************************************************************************)
(* Initial state: the manager constructed, start_up not yet run.            *)
(***************************************************************************)
MemoryInit ==
    /\ backgrounds_ = EmptyMap
    /\ name_to_background_id_ = EmptyMap
    /\ file_id_to_background_id_ = EmptyMap
    /\ background_id_to_file_source_id_ = EmptyMap
    /\ loaded_from_database_backgrounds_ = {}
    /\ being_loaded_from_database_backgrounds_ = EmptyMap
    /\ installed_background_ids_ = << >>
    /\ set_background_id_ = [d \in BOOLEAN |-> NoId]
    /\ set_background_type_ = [d \in BOOLEAN |-> DefaultType]
    /\ max_local_background_id_ = NoId
    /\ pending_get_backgrounds_queries_ = << >>
    /\ file_main_ = [f \in FileIds |-> f]
    /\ being_uploaded_files_ = EmptyMap
    /\ uploads = {}
    /\ net_queries = {}
    /\ sqlite_gets = {}
    /\ close_flag = FALSE
    /\ started = FALSE
    /\ fatal = FALSE

\* the manager of a user's client
UserInit == MemoryInit /\ is_bot = FALSE

\* the local ids earlier runs handed out, as far as the binlog shows them: those
\* up to the stored counter and those of stored fills that carry a local id
PreviouslyIssued(binlog) ==
    (1..to_integer(binlog.max_bg_id))
    \cup {ParseLogEvent(binlog[key]).background_.id :
             key \in {k \in {"bg", "bgd"} :
                        /\ binlog[k] # << >>
                        /\ ParseLogEvent(binlog[k]).background_.has_new_local_id
                        /\ is_local(ParseLogEvent(binlog[k]).background_.id)
                        /\ ~has_file(ParseLogEvent(binlog[k]).background_.type)}}

Init ==
    /\ UserInit
    /\ binlog_pmc \in [max_bg_id : StoredMaxIds, bg : StoredSelections, bgd : StoredSelections]
    /\ sqlite_pmc = EmptyMap
    /\ use_file_db \in BOOLEAN
    /\ promises = {}
    /\ calls = 0
    /\ issued = PreviouslyIssued(binlog_pmc)
    /\ remote_seen = {}
    /\ out = NoOut

(***************************************************************************)
(* Actions.                                                                 *)
(***************************************************************************)
Running == started /\ ~fatal
CanCall == Running /\ calls < MaxCalls
CanSelect == CanCall /\ calls < MaxSelectCalls
NewPromise == calls + 1
\* the world of a call with a new promise for its caller
Call(name) == Op([World EXCEPT !.promises = @ \cup {NewPromise}, !.calls = NewPromise], name)
Received(q) == [World EXCEPT !.net_queries = @ \ {q}]

StartUp ==
    /\ ~started /\ ~fatal
    /\ CommitWorld(Op(start_up(World), "start_up"))
    /\ started' = TRUE
    /\ UNCHANGED <<use_file_db, close_flag, is_bot>>

\* the process stops (or crashes) and is constructed again: memory, queries
\* in flight and waiting callers are lost, the durable stores are kept
Restart ==
    /\ started
    /\ backgrounds_' = EmptyMap
    /\ name_to_background_id_' = EmptyMap
    /\ file_id_to_background_id_' = EmptyMap
    /\ background_id_to_file_source_id_' = EmptyMap
    /\ loaded_from_database_backgrounds_' = {}
    /\ being_loaded_from_database_backgrounds_' = EmptyMap
    /\ installed_background_ids_' = << >>
    /\ set_background_id_' = [d \in BOOLEAN |-> NoId]
    /\ set_background_type_' = [d \in BOOLEAN |-> DefaultType]
    /\ max_local_background_id_' = NoId
    /\ pending_get_backgrounds_queries_' = << >>
    /\ file_main_' = [f \in FileIds |-> f]
    /\ being_uploaded_files_' = EmptyMap
    /\ uploads' = {}
    /\ net_queries' = {}
    /\ sqlite_gets' = {}
    /\ close_flag' = FALSE
    /\ started' = FALSE
    /\ fatal' = FALSE
    /\ promises' = {}
    /\ out' = [NoOut EXCEPT !.op = "restart"]
    /\ UNCHANGED <<binlog_pmc, sqlite_pmc, use_file_db, is_bot, calls, issued, remote_seen>>

Close ==
    /\ Running /\ ~close_flag
    /\ close_flag' = TRUE
    /\ out' = [NoOut EXCEPT !.op = "close"]
    /\ UNCHANGED <<backgrounds_, name_to_background_id_, file_id_to_background_id_,
                   background_id_to_file_source_id_, loaded_from_database_backgrounds_,
                   being_loaded_from_database_backgrounds_, installed_background_ids_,
                   set_background_id_, set_background_type_, max_local_background_id_,
                   pending_get_backgrounds_queries_, binlog_pmc, sqlite_pmc, file_main_,
                   being_uploaded_files_, uploads, net_queries, sqlite_gets, promises, calls,
                   use_file_db, is_bot, started, fatal, issued, remote_seen>>

GetBackgrounds ==
    /\ CanCall
    /\ Commit(get_backgrounds(Call("get_backgrounds"), NewPromise))

OnGetBackgrounds ==
    /\ Running
    /\ \E q \in net_queries : \E result \in CatalogResults :
          /\ q.q = "GetBackgroundsQuery"
          /\ Commit(on_get_backgrounds(
                        [OpResult(Received(q), "on_get_backgrounds", result.kind) EXCEPT
                            !.out.wallpapers = result.wallpapers],
                        result, use_file_db))

SearchBackground ==
    /\ CanCall
    /\ \E name \in SearchNames :
          Commit(search_background([Call("search_background") EXCEPT !.out.name = name],
                                   name, NewPromise, use_file_db, close_flag))

OnLoadBackgroundFromDatabase ==
    /\ Running
    /\ \E g \in sqlite_gets :
          Commit(on_load_background_from_database(
                     Op([World EXCEPT !.sqlite_gets = @ \ {g}],
                        "on_load_background_from_database"),
                     g.name, g.value, close_flag))

OnGetBackgroundQueryResult ==
    /\ Running
    /\ \E q \in net_queries : \E result \in GetBackgroundResults :
          /\ q.q = "GetBackgroundQuery"
          /\ Commit(on_get_background_query_result(
                        [OpResult(Received(q), "on_get_background_query_result",
                                  result.kind) EXCEPT
                            !.out.wallpapers = IF result.kind = "error" THEN << >>
                                               ELSE <<result.wallpaper>>],
                        q, result, use_file_db))


\* the identifiers a client passes: those of the registry and one it does not hold
KnownIds == DOMAIN backgrounds_ \cup {RemoteId2}
SetInputs ==
    {[kind |-> "null", id |-> NoId]}
    \cup {[kind |-> "remote", id |-> id] : id \in KnownIds}

\* with an inputBackgroundRemote every type without a file behaves as nullptr
SetBackground ==
    /\ CanSelect
    /\ \E input \in SetInputs, type_null \in BOOLEAN, type \in FillTypes \cup FileTypes,
          for_dark_theme \in BOOLEAN :
          /\ type_null => type = DefaultType
          /\ (input.kind = "remote" /\ ~type_null) => has_file(type)
          /\ Commit(set_background(
                        [Call("set_background") EXCEPT
                            !.out.by_id = IF input.kind = "remote"
                                          THEN <<[id |-> input.id, type |-> type]>>
                                          ELSE << >>],
                        input, type_null, type, for_dark_theme, NewPromise))

\* the local files a client passes: each file the file manager holds, a file
\* it does not know, an encrypted one and one without a location to read from
InputFiles ==
    {[file_id |-> f, status |-> "ok"] : f \in FileIds}
    \cup {[file_id |-> 1, status |-> st] : st \in {"unknown", "encrypted", "no_location"}}

\* set_background with an inputBackgroundLocal
SetBackgroundLocal ==
    /\ CanSelect
    /\ \E input_file \in InputFiles, type \in {DefaultType} \cup FileTypes,
          for_dark_theme \in BOOLEAN :
          LET input == [kind |-> "local", id |-> NoId, file |-> input_file]
              request == [file |-> input_file, type |-> type,
                          for_dark_theme |-> for_dark_theme]
          IN  Commit(set_background([Call("set_background") EXCEPT !.out.input = <<request>>],
                                    input, FALSE, type, for_dark_theme, NewPromise))

\* the file manager reports an upload: it reports each upload once
Reported(file_id) == [World EXCEPT !.uploads = @ \ {file_id}]
UploadErrors == {[code |-> 400, message |-> "FILE_PARTS_INVALID"],
                 [code |-> 0, message |-> "Canceled"]}

OnUploadBackgroundFile ==
    /\ Running
    /\ \E file_id \in uploads, input_file \in {"null", "inputFile"} :
          Commit(on_upload_background_file(
                     OpResult(Reported(file_id), "on_upload_background_file", input_file),
                     file_id, input_file))

OnUploadBackgroundFileError ==
    /\ Running
    /\ \E file_id \in uploads, status \in UploadErrors :
          Commit(on_upload_background_file_error(
                     [OpResult(Reported(file_id), "on_upload_background_file_error",
                               StatusError(status.code, status.message))
                        EXCEPT !.out.input = <<status>>],
                     file_id, status, close_flag))

UploadResults ==
    {[kind |-> "error", status |-> st, wallpaper |-> WpA] :
        st \in {[code |-> 400, message |-> "FILE_PARTS_INVALID"],
                [code |-> 429, message |-> "Too Many Requests"]}}
    \cup {[kind |-> "wallPaper", status |-> [code |-> 0, message |-> "ok"], wallpaper |-> wp] :
             wp \in {WpA, WpB, WpNoFile, WpEmptyDocument}}

OnUploadBackgroundQueryResult ==
    /\ Running
    /\ \E q \in net_queries : \E result \in UploadResults :
          /\ q.q = "UploadBackgroundQuery"
          /\ Commit(on_upload_background_query_result(
                        [OpResult(Received(q), "on_upload_background_query_result",
                                  result.kind)
                           EXCEPT !.out.wallpapers = IF result.kind = "error" THEN << >>
                                                     ELSE <<result.wallpaper>>],
                        q, result, use_file_db, close_flag))

GetCurrentState ==
    /\ Running
    /\ Commit(get_current_state(Op(World, "get_current_state"), is_bot))

QueryResults == {"ok", NetError}

OnInstalledBackground ==
    /\ Running
    /\ \E q \in net_queries : \E result \in QueryResults :
          /\ q.q = "InstallBackgroundQuery"
          /\ Commit(on_installed_background(
                        OpResult(Received(q), "on_installed_background", result),
                        q.id, q.type, q.dark, result, q.promise))

RemoveBackground ==
    /\ CanSelect
    /\ \E id \in KnownIds :
          Commit(remove_background(Call("remove_background"), id, NewPromise))

OnRemovedBackground ==
    /\ Running
    /\ \E q \in net_queries : \E result \in QueryResults :
          /\ q.q \in {"UnsaveBackgroundQuery", "RemovedLocally"}
          /\ q.q = "RemovedLocally" => result = "ok"
          /\ Commit(on_removed_background(
                        OpResult(Received(q), "on_removed_background", result),
                        q.id, result, q.promise))

ResetBackgrounds ==
    /\ CanSelect
    /\ Commit(reset_backgrounds(Call("reset_backgrounds"), NewPromise))

OnResetBackground ==
    /\ Running
    /\ \E q \in net_queries : \E result \in QueryResults :
          /\ q.q = "ResetBackgroundsQuery"
          /\ Commit(on_reset_background(
                        OpResult(Received(q), "on_reset_background", result),
                        result, q.promise))

(***************************************************************************)
(* Specifications.                                                          *)
(***************************************************************************)
Next ==
    \/ StartUp
    \/ Restart
    \/ Close
    \/ GetBackgrounds
    \/ OnGetBackgrounds
    \/ SearchBackground
    \/ OnLoadBackgroundFromDatabase
    \/ OnGetBackgroundQueryResult
    \/ SetBackground
    \/ SetBackgroundLocal
    \/ OnUploadBackgroundFile
    \/ OnUploadBackgroundFileError
    \/ OnUploadBackgroundQueryResult
    \/ OnInstalledBackground
    \/ RemoveBackground
    \/ OnRemovedBackground
    \/ ResetBackgrounds
    \/ OnResetBackground
    \/ GetCurrentState

Spec == Init /\ [][Next]_vars

\* The catalog fetch alone.  get_backgrounds and on_get_backgrounds read and
\* write the waiter queue, the installed list, the registry with its indices
\* and the by-name store; the start state has the light slot unset or set to a
\* file-backed background of the server.
InitCatalog ==
    /\ Init
    /\ binlog_pmc.max_bg_id = << >>
    /\ binlog_pmc.bg \in {<< >>, StoredFile(RemoteId1, SlugA, 1, TRUE)}
    /\ binlog_pmc.bgd = << >>

NextCatalog ==
    \/ StartUp
    \/ Restart
    \/ Close
    \/ GetBackgrounds
    \/ OnGetBackgrounds

SpecCatalog == InitCatalog /\ [][NextCatalog]_vars

\* Resolution by name alone, with the by-name store empty or holding the
\* record of SlugA that an earlier run resolved, and the light slot unset or
\* holding a fill stored before local ids were introduced.
InitSearch ==
    /\ UserInit
    /\ binlog_pmc \in [max_bg_id : {<< >>}, bg : {<< >>, StoredFill(RemoteId2, FALSE)},
                       bgd : {<< >>}]
    /\ use_file_db \in BOOLEAN
    /\ sqlite_pmc \in {EmptyMap,
                        Put(EmptyMap, SlugA,
                            StoreBackground([EmptyBackground EXCEPT
                                !.id = RemoteId1, !.access_hash = RemoteId1, !.name = SlugA,
                                !.file_id = 1, !.type = BackgroundType("Wallpaper", 0)]))}
    /\ use_file_db = FALSE => sqlite_pmc = EmptyMap
    /\ promises = {}
    /\ calls = 0
    /\ issued = {}
    /\ remote_seen = {}
    /\ out = NoOut

NextSearch ==
    \/ StartUp
    \/ Restart
    \/ Close
    \/ SearchBackground
    \/ OnLoadBackgroundFromDatabase
    \/ OnGetBackgroundQueryResult

SpecSearch == InitSearch /\ [][NextSearch]_vars

\* The selection slots: every handler that sets a slot, from every stored
\* state of the light slot, across restarts.
InitSelect ==
    /\ Init
    /\ use_file_db = FALSE
    /\ binlog_pmc.max_bg_id = << >>
    /\ binlog_pmc.bgd \in {<< >>, StoredFill(RemoteId2, FALSE)}

NextSelect ==
    \/ StartUp
    \/ Restart
    \/ SetBackground
    \/ OnInstalledBackground
    \/ RemoveBackground
    \/ OnRemovedBackground
    \/ ResetBackgrounds
    \/ OnResetBackground

SpecSelect == InitSelect /\ [][NextSelect]_vars

\* The allocator: every handler that allocates a local id (start_up,
\* search_background of a fill name, set_background of a new fill), from every
\* stored counter and selection state, across restarts.
InitAlloc ==
    /\ Init
    /\ use_file_db = FALSE

NextAlloc ==
    \/ StartUp
    \/ Restart
    \/ SearchBackground
    \/ SetBackground

SpecAlloc == InitAlloc /\ [][NextAlloc]_vars


\* Installing and removing with two file-backed backgrounds of the server in
\* the registry: the slots hold them when the manager starts.
InitInstall ==
    /\ UserInit
    /\ binlog_pmc = [max_bg_id |-> << >>,
                     bg |-> StoredFile(RemoteId1, SlugA, 1, TRUE),
                     bgd |-> StoredFile(RemoteId2, SlugB, MaxFiles, TRUE)]
    /\ sqlite_pmc = EmptyMap
    /\ use_file_db = FALSE
    /\ promises = {}
    /\ calls = 0
    /\ issued = {}
    /\ remote_seen = {}
    /\ out = NoOut

SpecInstall == InitInstall /\ [][NextSelect]_vars

\* The upload of local files: set_background with an inputBackgroundLocal and
\* the handlers of the file manager's and the server's answers, with the light
\* slot unset or set to a file-backed background of the server, while running
\* and while closing.
InitUpload ==
    /\ Init
    /\ use_file_db = FALSE
    /\ binlog_pmc.max_bg_id = << >>
    /\ binlog_pmc.bg \in {<< >>, StoredFile(RemoteId1, SlugA, 1, TRUE)}
    /\ binlog_pmc.bgd = << >>

NextUpload ==
    \/ StartUp
    \/ Close
    \/ SetBackgroundLocal
    \/ OnUploadBackgroundFile
    \/ OnUploadBackgroundFileError
    \/ OnUploadBackgroundQueryResult
    \/ OnInstalledBackground

SpecUpload == InitUpload /\ [][NextUpload]_vars

\* The calls of the client that validate their input: search_background,
\* set_background with every kind of input and remove_background, with the
\* light slot unset or set to a file-backed background of the server.
InitValidate ==
    /\ Init
    /\ binlog_pmc.max_bg_id = << >>
    /\ binlog_pmc.bg \in {<< >>, StoredFile(RemoteId1, SlugA, 1, TRUE)}
    /\ binlog_pmc.bgd = << >>

NextValidate ==
    \/ StartUp
    \/ SearchBackground
    \/ SetBackground
    \/ SetBackgroundLocal
    \/ RemoveBackground

SpecValidate == InitValidate /\ [][NextValidate]_vars

\* The updates of the selected backgrounds: start_up from each kind of
\* stored light selection, the handlers that set a slot and get_current_state,
\* for a user and for a bot.
InitEvents ==
    /\ MemoryInit
    /\ is_bot \in BOOLEAN
    /\ binlog_pmc \in [max_bg_id : {<< >>},
                       bg : {<< >>, StoredFill(2, TRUE), StoredFile(RemoteId1, SlugA, 1, TRUE),
                             StoredFile(RemoteId1, SlugA, 1, FALSE)},
                       bgd : {<< >>}]
    /\ sqlite_pmc = EmptyMap
    /\ use_file_db = FALSE
    /\ promises = {}
    /\ calls = 0
    /\ issued = PreviouslyIssued(binlog_pmc)
    /\ remote_seen = {}
    /\ out = NoOut

NextEvents ==
    \/ StartUp
    \/ SetBackground
    \/ OnInstalledBackground
    \/ RemoveBackground
    \/ OnRemovedBackground
    \/ ResetBackgrounds
    \/ OnResetBackground
    \/ GetCurrentState

SpecEvents == InitEvents /\ [][NextEvents]_vars

\* The calls of the client that start a request to the server, before and
\* after the close flag is set.
InitClose ==
    /\ InitValidate
    /\ use_file_db = FALSE

NextClose ==
    \/ StartUp
    \/ Close
    \/ GetBackgrounds
    \/ SearchBackground
    \/ SetBackground
    \/ RemoveBackground
    \/ ResetBackgrounds

SpecClose == InitClose /\ [][NextClose]_vars

\* start_up alone, from every stored counter and every pair of stored
\* selection records, among them a fill that carries a file
StoredFillWithFile(id) ==
    StoreLogEvent([EmptyBackground EXCEPT !.id = id, !.is_creator = TRUE, !.file_id = 1,
                                          !.type = BackgroundType("Fill", 1),
                                          !.name = get_link(BackgroundType("Fill", 1))],
                  BackgroundType("Fill", 1))
RecoverSelections == StoredSelections \cup {StoredFillWithFile(2)}

InitRecover ==
    /\ UserInit
    /\ binlog_pmc \in [max_bg_id : StoredMaxIds, bg : RecoverSelections,
                       bgd : RecoverSelections]
    /\ sqlite_pmc = EmptyMap
    /\ use_file_db \in BOOLEAN
    /\ promises = {}
    /\ calls = 0
    /\ issued = PreviouslyIssued(binlog_pmc)
    /\ remote_seen = {}
    /\ out = NoOut

NextRecover ==
    \/ StartUp
    \/ Restart

SpecRecover == InitRecover /\ [][NextRecover]_vars


(***************************************************************************)
(* Properties of the catalog fetch (SpecCatalog).                           *)
(***************************************************************************)
CatalogQueries == {q \in net_queries : q.q = "GetBackgroundsQuery"}
Range(seq) == {seq[i] : i \in 1..Len(seq)}
\* the waiters of the queue, each resolved with r
AllResolved(waiters, r) == {Resolved(p, r) : p \in Range(waiters)}

\* C2: at most one catalog request (GetBackgroundsQuery) is outstanding, and
\* one is outstanding exactly while waiters are queued; get_backgrounds appends
\* its caller and sends a request only when the queue was empty before the
\* call; the response resolves every queued waiter with one and the same
\* outcome and empties the queue.
C2_CatalogDeduplicated ==
    [][/\ Cardinality(CatalogQueries') <= 1
       /\ (CatalogQueries' # {}) <=> (pending_get_backgrounds_queries_' # << >>)
       /\ out'.op = "get_backgrounds" =>
             /\ pending_get_backgrounds_queries_' =
                    Append(pending_get_backgrounds_queries_, calls')
             /\ (out'.sent # << >>) <=> (pending_get_backgrounds_queries_ = << >>)
             /\ Len(out'.sent) <= 1
       /\ out'.op = "on_get_backgrounds" =>
             /\ pending_get_backgrounds_queries_ # << >>
             /\ pending_get_backgrounds_queries_' = << >>
             /\ \E r \in {"ok", NetError} :
                   out'.resolved = AllResolved(pending_get_backgrounds_queries_, r)
      ]_vars

\* two concurrent callers were answered by one response
C2_Witness ==
    /\ out.op = "on_get_backgrounds"
    /\ Cardinality(out.resolved) >= 2
    /\ CatalogQueries = {}

\* C3: a "not modified" catalog response leaves the installed list, the
\* registry with its file index, the name index, the selection slots and the
\* durable stores as they were, and resolves every queued waiter successfully.
C3_NotModifiedPreserves ==
    [][(out'.op = "on_get_backgrounds" /\ out'.result = "notModified") =>
          /\ installed_background_ids_' = installed_background_ids_
          /\ backgrounds_' = backgrounds_
          /\ file_id_to_background_id_' = file_id_to_background_id_
          /\ name_to_background_id_' = name_to_background_id_
          /\ set_background_id_' = set_background_id_
          /\ set_background_type_' = set_background_type_
          /\ binlog_pmc' = binlog_pmc
          /\ sqlite_pmc' = sqlite_pmc
          /\ pending_get_backgrounds_queries_ # << >>
          /\ out'.resolved = AllResolved(pending_get_backgrounds_queries_, "ok")
          /\ promises' = promises \ Range(pending_get_backgrounds_queries_)
      ]_vars

\* a "not modified" response arrived while the installed list was not empty
C3_Witness ==
    /\ out.op = "on_get_backgrounds"
    /\ out.result = "notModified"
    /\ Len(installed_background_ids_) >= 2
    /\ out.resolved # {}

\* C4: a failed catalog request resolves every queued waiter with the same
\* error and leaves the installed list as it was.
C4_ErrorKeepsInstalled ==
    [][(out'.op = "on_get_backgrounds" /\ out'.result = "error") =>
          /\ installed_background_ids_' = installed_background_ids_
          /\ pending_get_backgrounds_queries_ # << >>
          /\ out'.resolved = AllResolved(pending_get_backgrounds_queries_, NetError)
          /\ promises' = promises \ Range(pending_get_backgrounds_queries_)
      ]_vars

\* a catalog request failed while the installed list was not empty and two
\* callers waited
C4_Witness ==
    /\ out.op = "on_get_backgrounds"
    /\ out.result = "error"
    /\ installed_background_ids_ # << >>
    /\ Cardinality(out.resolved) >= 2

\* the validation of one catalog entry, as section 4.3 states it: the
\* identifier is of the server's range; an entry with a file has a slug that
\* is not locally synthesizable and a usable document; an entry without a file
\* is a default fill with settings
EntryPassesValidation(wp) ==
    /\ wp.id # 0
    /\ ~(0 < wp.id /\ wp.id <= LocalIdLimit)
    /\ IF wp.ctor = "wallPaperNoFile"
       THEN ~wp.no_settings /\ wp.is_default
       ELSE /\ ~is_background_name_local(wp.slug)
            /\ wp.doc = "document"
            /\ wp.doc_file # NoFile
RECURSIVE AcceptedIds(_)
AcceptedIds(wallpapers) ==
    IF wallpapers = << >> THEN << >>
    ELSE (IF EntryPassesValidation(Head(wallpapers)) THEN <<Head(wallpapers).id>> ELSE << >>)
         \o AcceptedIds(Tail(wallpapers))

\* C5: after a successful catalog response that is not "not modified" the
\* installed list is exactly the identifiers of the response entries that
\* passed validation, in response order; no identifier of the previous list
\* that is absent from the response remains; every waiter is resolved
\* successfully.
C5_CatalogReplacesInstalled ==
    [][(out'.op = "on_get_backgrounds" /\ out'.result = "wallPapers") =>
          /\ installed_background_ids_' = AcceptedIds(out'.wallpapers)
          /\ \A id \in Range(installed_background_ids_) :
                id \notin {out'.wallpapers[i].id : i \in 1..Len(out'.wallpapers)}
                    => id \notin Range(installed_background_ids_')
          /\ pending_get_backgrounds_queries_ # << >>
          /\ out'.resolved = AllResolved(pending_get_backgrounds_queries_, "ok")
      ]_vars

\* a response of two entries, one of them rejected, became the installed
\* list, while the registry holds a server identifier that is not in the list
C5_Witness ==
    /\ out.op = "on_get_backgrounds"
    /\ out.result = "wallPapers"
    /\ Len(out.wallpapers) = 2
    /\ Len(installed_background_ids_) = 1
    /\ \E id \in RemoteIds : id \notin Range(installed_background_ids_)
                             /\ id \in DOMAIN backgrounds_
    /\ out.resolved # {}


(***************************************************************************)
(* Properties of the resolution by name (SpecSearch).                       *)
(***************************************************************************)
NameQueries(name) == {q \in net_queries : q.q = "GetBackgroundQuery" /\ q.name = name}

\* C1: for every slug that is not locally synthesizable at most one remote
\* resolve request (GetBackgroundQuery) is outstanding, however many callers
\* of search_background asked for it.
C1_OneRequestPerSlug ==
    \A name \in {SlugA, SlugB} : Cardinality(NameQueries(name)) <= 1

(***************************************************************************)
(* Properties of the local identifier allocator (SpecAlloc, SpecSearch).    *)
(***************************************************************************)
StoredCounter == to_integer(binlog_pmc.max_bg_id)

\* C6: across restarts, get_next_local_background_id never returns an
\* identifier it has returned before: the identifiers a step allocates are
\* pairwise different and none of them was handed out earlier, in this run
\* or in a run before it.
C6_NoLocalIdTwice ==
    [][/\ \A i, j \in 1..Len(out'.new_ids) :
             out'.new_ids[i] = out'.new_ids[j] => i = j
       /\ \A i \in 1..Len(out'.new_ids) : out'.new_ids[i] \notin issued
       /\ issued' = issued \cup Range(out'.new_ids)
      ]_vars

\* search_background allocated an identifier after a restart: the registry
\* holds the new fill alone, and two identifiers had been handed out before
C6_Witness ==
    /\ out.op = "search_background"
    /\ \E id \in issued : out.new_ids = <<id>> /\ DOMAIN backgrounds_ = {id}
    /\ Cardinality(issued) >= 3
    /\ binlog_pmc.bg = << >>
    /\ binlog_pmc.bgd = << >>

\* C7: the counter never decreases while the manager runs and the stored
\* counter never decreases at all; once start_up has run the key "max_bg_id"
\* holds the counter's value in every state, so every identifier a step hands
\* out is at most the stored counter and the last one equals it.
C7_CounterPersisted ==
    [][/\ StoredCounter' >= StoredCounter
       /\ (started /\ started') => max_local_background_id_' >= max_local_background_id_
       /\ started' => StoredCounter' = max_local_background_id_'
       /\ out'.new_ids # << >> =>
             /\ out'.new_ids[Len(out'.new_ids)] = StoredCounter'
             /\ out'.new_ids[Len(out'.new_ids)] = max_local_background_id_'
             /\ max_local_background_id_' > StoredCounter
      ]_vars

\* a call allocated an identifier and the stored counter holds it
C7_Witness ==
    /\ out.op \in {"search_background", "set_background"}
    /\ out.new_ids # << >>
    /\ StoredCounter = max_local_background_id_
    /\ StoredCounter >= 2

\* C8: every identifier the allocator has returned is of the local range and
\* every identifier accepted from a response of the server is outside it, so
\* the two never meet; a record the registry holds under an identifier of the
\* local range is a fill the client created, never a record of the server.
C8_LocalIdsApart ==
    /\ \A id \in issued : is_local(id)
    /\ \A id \in remote_seen : is_valid(id) /\ ~is_local(id) /\ id \notin issued
    /\ \A id \in DOMAIN backgrounds_ :
          is_local(id) => /\ backgrounds_[id].id = id
                          /\ backgrounds_[id].is_creator
                          /\ ~has_file(backgrounds_[id].type)
                          /\ id \in issued

\* the server answered with an identifier the allocator had handed out, after
\* an answer with an identifier of its own range had been accepted
C8_Witness ==
    /\ out.op = "on_get_background_query_result"
    /\ out.wallpapers = <<WpLocalId>>
    /\ WpLocalId.id \in issued
    /\ WpLocalId.id \in DOMAIN backgrounds_
    /\ remote_seen # {}


(***************************************************************************)
(* Properties of the selection slots (SpecSelect).                          *)
(***************************************************************************)
\* how often the step saved the key of the variant, and how often it sent the
\* update of the variant
SavesOf(o, for_dark_theme) ==
    Cardinality({i \in 1..Len(o.saves) :
                    o.saves[i] = get_background_database_key(for_dark_theme)})
UpdatesOf(o, for_dark_theme) ==
    Cardinality({i \in 1..Len(o.updates) : o.updates[i].for_dark_theme = for_dark_theme})

\* C9: a call of set_background_id whose identifier and type both equal the
\* slot's current value changes nothing, saves nothing and sends no update; a
\* call with another identifier or type sets the slot to its arguments, saves
\* the key once and sends one update, so that the same call repeated finds the
\* slot equal.  No handler other than start_up saves or notifies for a variant
\* whose slot it leaves as it was.
C9_RepeatedSetIsNoOp ==
    [][/\ \A i \in 1..Len(out'.set_calls) :
             LET call == out'.set_calls[i]
                 d == call.for_dark_theme
                 key == get_background_database_key(d)
             IN  IF /\ call.id = set_background_id_[d]
                    /\ call.type = set_background_type_[d]
                 THEN /\ SavesOf(out', d) = 0
                      /\ UpdatesOf(out', d) = 0
                      /\ set_background_id_'[d] = set_background_id_[d]
                      /\ set_background_type_'[d] = set_background_type_[d]
                      /\ binlog_pmc'[key] = binlog_pmc[key]
                 ELSE /\ SavesOf(out', d) = 1
                      /\ UpdatesOf(out', d) = 1
                      /\ set_background_id_'[d] = call.id
                      /\ set_background_type_'[d] = call.type
       /\ (started /\ started') =>
             \A d \in BOOLEAN :
                (/\ set_background_id_'[d] = set_background_id_[d]
                 /\ set_background_type_'[d] = set_background_type_[d])
                    => SavesOf(out', d) = 0 /\ UpdatesOf(out', d) = 0
      ]_vars

\* the answer to a second, identical install request called set_background_id
\* with the slot's value: nothing was saved and no update was sent
C9_Witness ==
    /\ out.op = "on_installed_background"
    /\ out.result = "ok"
    /\ Len(out.set_calls) = 1
    /\ is_valid(out.set_calls[1].id)
    /\ out.set_calls[1].id = set_background_id_[out.set_calls[1].for_dark_theme]
    /\ out.saves = << >>
    /\ out.updates = << >>

\* the key of the variant is absent when the slot is unset and otherwise holds
\* a record with the slot's identifier and type
SlotStored(for_dark_theme) ==
    LET stored == binlog_pmc[get_background_database_key(for_dark_theme)]
    IN  IF set_background_id_[for_dark_theme] = NoId
        THEN stored = << >>
        ELSE /\ stored # << >>
             /\ ParseLogEvent(stored).background_.id = set_background_id_[for_dark_theme]
             /\ ParseLogEvent(stored).set_type_ = set_background_type_[for_dark_theme]

\* C10: in every state after start_up, for each variant the key "bg" / "bgd"
\* is absent exactly when the slot is unset and otherwise holds a record whose
\* identifier and set type are the slot's; a step that changes a slot saves
\* (stores or erases) its key in the same step.
C10_SlotsWrittenThrough ==
    [][/\ started' => SlotStored(FALSE)' /\ SlotStored(TRUE)'
       /\ (started /\ started') =>
             \A d \in BOOLEAN :
                (\/ set_background_id_'[d] # set_background_id_[d]
                 \/ set_background_type_'[d] # set_background_type_[d])
                    => SavesOf(out', d) >= 1
      ]_vars

\* set_background put a fill into the dark slot and stored it, while the
\* light slot was unset and its key absent
C10_Witness ==
    /\ started
    /\ out.op = "set_background"
    /\ is_local(set_background_id_[TRUE])
    /\ SavesOf(out, TRUE) = 1
    /\ binlog_pmc.bgd # << >>
    /\ set_background_id_[FALSE] = NoId
    /\ binlog_pmc.bg = << >>
    /\ SlotStored(TRUE)


(***************************************************************************)
(* Properties of start_up: recovery of the slots (SpecSelect, SpecRecover). *)
(***************************************************************************)
\* two background records with equal stored fields (the file source is not
\* part of the encoding)
SameFields(a, b) == [a EXCEPT !.file_source_id = 0] = [b EXCEPT !.file_source_id = 0]
StoredEvent(binlog, for_dark_theme) ==
    ParseLogEvent(binlog[get_background_database_key(for_dark_theme)])
HasStored(binlog, for_dark_theme) ==
    binlog[get_background_database_key(for_dark_theme)] # << >>
\* the validity invariant of a record: it has a file exactly when its type has one
ValidRecord(b) == file_is_valid(b.file_id) = has_file(b.type)

\* C11: the record a step saves for a set slot decodes to the slot's identifier
\* and type and to the fields of the registry's record; a restart keeps the
\* binlog; start_up on a stored record that is valid and carries its final
\* identifier sets the slot to the record's identifier and set type, puts the
\* background into the registry with the stored fields (those of the dark
\* record when both variants store one identifier) and leaves the key as it was.
C11_SelectionRoundTrip ==
    [][/\ \A d \in BOOLEAN :
             (SavesOf(out', d) >= 1 /\ is_valid(set_background_id_'[d])) =>
                /\ HasStored(binlog_pmc', d)
                /\ StoredEvent(binlog_pmc', d).background_.id = set_background_id_'[d]
                /\ StoredEvent(binlog_pmc', d).set_type_ = set_background_type_'[d]
                /\ SameFields(StoredEvent(binlog_pmc', d).background_,
                              backgrounds_'[set_background_id_'[d]])
       /\ out'.op = "restart" => binlog_pmc' = binlog_pmc
       /\ out'.op = "start_up" =>
             \A d \in BOOLEAN :
                (/\ HasStored(binlog_pmc, d)
                 /\ ValidRecord(StoredEvent(binlog_pmc, d).background_)
                 /\ StoredEvent(binlog_pmc, d).background_.has_new_local_id) =>
                    LET stored == StoredEvent(binlog_pmc, d)
                        id == stored.background_.id
                    IN  /\ set_background_id_'[d] = id
                        /\ set_background_type_'[d] = stored.set_type_
                        /\ id \in DOMAIN backgrounds_'
                        /\ (d \/ ~HasStored(binlog_pmc, TRUE)
                              \/ StoredEvent(binlog_pmc, TRUE).background_.id # id)
                              => SameFields(backgrounds_'[id], stored.background_)
                        /\ binlog_pmc'[get_background_database_key(d)] =
                               binlog_pmc[get_background_database_key(d)]
      ]_vars

\* start_up after two calls of this run: the light slot is again a file-backed
\* background set as a pattern, the dark slot again a fill
C11_Witness ==
    /\ out.op = "start_up"
    /\ calls = 2
    /\ set_background_id_[FALSE] \in RemoteIds
    /\ set_background_type_[FALSE].kind = "Pattern"
    /\ backgrounds_[set_background_id_[FALSE]].type.kind = "Wallpaper"
    /\ is_local(set_background_id_[TRUE])
    /\ ~has_file(set_background_type_[TRUE])


\* the update start_up sent for the variant shows no background
SentNoBackground(o, for_dark_theme) ==
    \A i \in 1..Len(o.updates) :
        o.updates[i].for_dark_theme = for_dark_theme
            => o.updates[i].background = NullBackgroundObject

\* C12: when the stored record of a variant breaks the validity invariant
\* (a file with a type that has none, or a type with a file and no file),
\* start_up leaves the variant's slot unset, erases its key, shows the client
\* no background for it and does not add the record to the registry; the
\* other variant is recovered from its own record all the same.
C12_BrokenRecordCleared ==
    [][out'.op = "start_up" =>
          \A d \in BOOLEAN :
             (HasStored(binlog_pmc, d) /\ ~ValidRecord(StoredEvent(binlog_pmc, d).background_)) =>
                LET broken == StoredEvent(binlog_pmc, d).background_
                    other == StoredEvent(binlog_pmc, ~d)
                    other_loaded == /\ HasStored(binlog_pmc, ~d)
                                    /\ ValidRecord(other.background_)
                IN  /\ set_background_id_'[d] = NoId
                    /\ set_background_type_'[d] = DefaultType
                    /\ binlog_pmc'[get_background_database_key(d)] = << >>
                    /\ SavesOf(out', d) = 1
                    /\ SentNoBackground(out', d)
                    /\ (~other_loaded \/ other.background_.id # broken.id)
                          => broken.id \notin DOMAIN backgrounds_'
                    /\ \A id \in DOMAIN backgrounds_' : ValidRecord(backgrounds_'[id])
                    /\ IF other_loaded
                       THEN /\ is_valid(set_background_id_'[~d])
                            /\ set_background_id_'[~d] \in DOMAIN backgrounds_'
                            /\ set_background_type_'[~d] = other.set_type_
                            /\ other.background_.has_new_local_id
                                  => set_background_id_'[~d] = other.background_.id
                            /\ binlog_pmc'[get_background_database_key(~d)] # << >>
                       ELSE set_background_id_'[~d] = NoId
      ]_vars

\* start_up erased the broken record of the light slot and loaded the dark
\* slot from its record
C12_Witness ==
    /\ out.op = "start_up"
    /\ SavesOf(out, FALSE) = 1
    /\ set_background_id_[FALSE] = NoId
    /\ binlog_pmc.bg = << >>
    /\ set_background_id_[TRUE] \in RemoteIds
    /\ SavesOf(out, TRUE) = 0
    /\ binlog_pmc.bgd # << >>


(***************************************************************************)
(* Properties of the names resolved locally (SpecSearch).                   *)
(***************************************************************************)
\* the names of the statement: the slug (the part before the first '?') is
\* shorter than 13 characters or has a character outside [A-Za-z0-9_-]
ShortOrNotBase64(name) ==
    \/ Len(BeforeParams(name)) < LocalNameMaxLen
    \/ ~is_base64url_characters(BeforeParams(name))
IsSearchOfLocalName(o) == o.op = "search_background" /\ ShortOrNotBase64(o.name)
NoRequestNoLookup ==
    /\ out'.sent = << >>
    /\ out'.db_gets = << >>
    /\ net_queries' = net_queries
    /\ sqlite_gets' = sqlite_gets
    /\ being_loaded_from_database_backgrounds_' = being_loaded_from_database_backgrounds_

\* C14 as stated: search_background of such a name sends no request, starts
\* no lookup in the by-name store and always resolves successfully with a new
\* fill under a fresh local identifier.
C14_AlwaysFillSynthesis ==
    [][IsSearchOfLocalName(out') =>
          /\ NoRequestNoLookup
          /\ out'.resolved = {Resolved(calls', "ok")}
          /\ Len(out'.new_ids) = 1
      ]_vars

\* C14: search_background of such a name sends no request and starts no
\* lookup in the by-name store.  When the name describes a fill, the caller
\* succeeds and gets a new fill under a fresh local identifier; otherwise (an
\* empty name, a name that describes no fill) the caller gets an error and
\* nothing is allocated or added.
C14_LocalNameStaysLocal ==
    [][IsSearchOfLocalName(out') =>
          /\ NoRequestNoLookup
          /\ IF IsFillName(out'.name)
             THEN /\ out'.resolved = {Resolved(calls', "ok")}
                  /\ Len(out'.new_ids) = 1
                  /\ out'.new_ids[1] \notin issued
                  /\ is_local(out'.new_ids[1])
                  /\ out'.ret = [id |-> out'.new_ids[1], type |-> FillOfName(out'.name)]
                  /\ out'.new_ids[1] \notin DOMAIN backgrounds_
                  /\ backgrounds_'[out'.new_ids[1]].type = FillOfName(out'.name)
             ELSE /\ \E r \in {"400:Background name must be non-empty", "400:WRONG_BACKGROUND"} :
                        out'.resolved = {Resolved(calls', r)}
                  /\ out'.new_ids = << >>
                  /\ out'.ret.id = NoId
                  /\ backgrounds_' = backgrounds_
                  /\ binlog_pmc' = binlog_pmc
      ]_vars

\* a long name with a character outside the alphabet was refused after a fill
\* name had been resolved to a new fill, with the by-name store in use
C14_Witness ==
    /\ out.op = "search_background"
    /\ out.name = NotBase64Name
    /\ use_file_db
    /\ \E id \in issued : id \in DOMAIN backgrounds_ /\ backgrounds_[id].name = FillName1
    /\ net_queries = {}
    /\ sqlite_gets = {}


(***************************************************************************)
(* Properties of installing, removing and resetting (SpecInstall).          *)
(***************************************************************************)
\* the query whose result the step received
ReceivedQueries == net_queries \ net_queries'
SlotsUnchanged ==
    /\ set_background_id_' = set_background_id_
    /\ set_background_type_' = set_background_type_
    /\ binlog_pmc' = binlog_pmc

\* C15: set_background sends an InstallBackgroundQuery only for a background
\* of the registry and a type with a file; when the query succeeds the
\* identifier is in the installed list (put in front when it was absent, the
\* list unchanged when it was present), the slot of the variant holds the
\* identifier with the requested type and is stored, and the caller succeeds;
\* when it fails nothing changes and the caller gets the error.
C15_InstallOnSuccess ==
    [][/\ out'.op = "set_background" =>
             \A i \in 1..Len(out'.sent) :
                /\ out'.sent[i].q = "InstallBackgroundQuery"
                /\ out'.sent[i].id \in DOMAIN backgrounds_
                /\ has_file(out'.sent[i].type)
                /\ Len(out'.sent) = 1
                /\ SlotsUnchanged
       /\ out'.op = "on_installed_background" =>
             \E q \in ReceivedQueries :
                /\ ReceivedQueries = {q}
                /\ q.q = "InstallBackgroundQuery"
                /\ IF out'.result = "ok"
                   THEN /\ installed_background_ids_' =
                              IF q.id \in Range(installed_background_ids_)
                              THEN installed_background_ids_
                              ELSE <<q.id>> \o installed_background_ids_
                        /\ set_background_id_'[q.dark] = q.id
                        /\ set_background_type_'[q.dark] = q.type
                        /\ SlotStored(q.dark)'
                        /\ set_background_id_'[~q.dark] = set_background_id_[~q.dark]
                        /\ set_background_type_'[~q.dark] = set_background_type_[~q.dark]
                        /\ out'.resolved = {Resolved(q.promise, "ok")}
                   ELSE /\ installed_background_ids_' = installed_background_ids_
                        /\ SlotsUnchanged
                        /\ out'.resolved = {Resolved(q.promise, NetError)}
      ]_vars

\* a second background was installed: it stands in front of the first
C15_Witness ==
    /\ out.op = "on_installed_background"
    /\ out.result = "ok"
    /\ Len(installed_background_ids_) = 2
    /\ \E d \in BOOLEAN : /\ installed_background_ids_[1] = set_background_id_[d]
                          /\ Len(out.set_calls) = 1
                          /\ out.set_calls[1].for_dark_theme = d
                          /\ SavesOf(out, d) = 1

\* C16: when a removal succeeds the identifier is no longer in the installed
\* list (the other identifiers keep their order), every slot that held it is
\* unset and its key erased, and a slot that holds another identifier and its
\* key are unchanged; when a reset succeeds the installed list is empty, both
\* slots are unset and both keys erased; a failure changes nothing.
C16_RemoveAndReset ==
    [][/\ out'.op = "on_removed_background" =>
             \E q \in ReceivedQueries :
                /\ ReceivedQueries = {q}
                /\ IF out'.result = "ok"
                   THEN /\ q.id \notin Range(installed_background_ids_')
                        /\ installed_background_ids_' =
                              SelectSeq(installed_background_ids_, LAMBDA x : x # q.id)
                        /\ \A d \in BOOLEAN :
                              LET key == get_background_database_key(d)
                              IN  IF set_background_id_[d] = q.id
                                  THEN /\ set_background_id_'[d] = NoId
                                       /\ set_background_type_'[d] = DefaultType
                                       /\ binlog_pmc'[key] = << >>
                                  ELSE /\ set_background_id_'[d] = set_background_id_[d]
                                       /\ set_background_type_'[d] = set_background_type_[d]
                                       /\ binlog_pmc'[key] = binlog_pmc[key]
                        /\ out'.resolved = {Resolved(q.promise, "ok")}
                   ELSE /\ installed_background_ids_' = installed_background_ids_
                        /\ SlotsUnchanged
                        /\ out'.resolved = {Resolved(q.promise, NetError)}
       /\ out'.op = "on_reset_background" =>
             \E q \in ReceivedQueries :
                IF out'.result = "ok"
                THEN /\ installed_background_ids_' = << >>
                     /\ \A d \in BOOLEAN :
                           /\ set_background_id_'[d] = NoId
                           /\ set_background_type_'[d] = DefaultType
                           /\ binlog_pmc'[get_background_database_key(d)] = << >>
                     /\ out'.resolved = {Resolved(q.promise, "ok")}
                ELSE /\ installed_background_ids_' = installed_background_ids_
                     /\ SlotsUnchanged
                     /\ out'.resolved = {Resolved(q.promise, NetError)}
      ]_vars

\* the background of the dark slot was removed: the dark slot is unset, the
\* light slot still holds the background installed before
C16_Witness ==
    /\ out.op = "on_removed_background"
    /\ out.result = "ok"
    /\ Len(out.set_calls) = 1
    /\ out.set_calls[1].for_dark_theme
    /\ set_background_id_[TRUE] = NoId
    /\ binlog_pmc.bgd = << >>
    /\ set_background_id_[FALSE] \in RemoteIds
    /\ installed_background_ids_ = <<set_background_id_[FALSE]>>


(***************************************************************************)
(* Properties of the validation of answers of the server (SpecSearch).      *)
(***************************************************************************)
\* the answers of the statement: the identifier is not one of the server, or
\* the answer is a wallPaper whose slug is empty or reads as a local name, or
\* whose document is empty or gives no file
MalformedAnswer(wp) ==
    \/ wp.id = 0
    \/ (0 < wp.id /\ wp.id <= LocalIdLimit)
    \/ /\ wp.ctor = "wallPaper"
       /\ \/ wp.slug = << >>
          \/ Len(wp.slug) <= LocalNameMaxLen
          \/ \E i \in 1..Len(wp.slug) : wp.slug[i] \notin Base64UrlChars
          \/ wp.doc = "documentEmpty"
          \/ wp.doc_file = 0

\* C17: an answer to a request by name that is malformed is discarded:
\* on_get_background returns no identifier, the registry, the name index, the
\* file index, the by-name store, the installed list and the slots stay as
\* they were, and the caller's promise is resolved without any background
\* having been added for the name.
C17_MalformedAnswerDiscarded ==
    [][(/\ out'.op = "on_get_background_query_result"
        /\ out'.result = "wallPaper"
        /\ MalformedAnswer(out'.wallpapers[1])) =>
          /\ out'.got = <<NoId>>
          /\ backgrounds_' = backgrounds_
          /\ name_to_background_id_' = name_to_background_id_
          /\ file_id_to_background_id_' = file_id_to_background_id_
          /\ sqlite_pmc' = sqlite_pmc
          /\ installed_background_ids_' = installed_background_ids_
          /\ SlotsUnchanged
          /\ remote_seen' = remote_seen
          /\ \E q \in ReceivedQueries :
                /\ ReceivedQueries = {q}
                /\ out'.resolved = {Resolved(q.promise, "ok")}
      ]_vars

\* an answer with a slug that reads as a fill arrived for a name the registry
\* does not know, with the by-name store in use: nothing was added
C17_Witness ==
    /\ out.op = "on_get_background_query_result"
    /\ out.wallpapers = <<WpLocalSlug>>
    /\ out.got = <<NoId>>
    /\ use_file_db
    /\ backgrounds_ = EmptyMap
    /\ sqlite_pmc = EmptyMap


(***************************************************************************)
(* Properties of the upload of local files (SpecUpload).                    *)
(***************************************************************************)
\* the upload the file manager reports in this step
ReportedUploads == uploads \ uploads'
IsUploadReport(o) ==
    o.op \in {"on_upload_background_file", "on_upload_background_file_error"}
RegistryUnchanged ==
    /\ backgrounds_' = backgrounds_
    /\ name_to_background_id_' = name_to_background_id_
    /\ file_id_to_background_id_' = file_id_to_background_id_
    /\ background_id_to_file_source_id_' = background_id_to_file_source_id_

\* C13: when the server answers an upload of file F with a wallpaper with a
\* document whose identifier the registry already holds with a file, and the
\* answer is accepted, merge(G, F) is issued for the file G of that record, F and G read
\* as the same file afterwards, and the slot of the requested variant holds
\* the identifier already in the registry with the requested type.
C13_UploadMerge ==
    [][(/\ out'.op = "on_upload_background_query_result"
        /\ out'.result = "wallPaper"
        /\ out'.wallpapers[1].ctor = "wallPaper"
        /\ out'.wallpapers[1].id \in DOMAIN backgrounds_
        /\ file_is_valid(backgrounds_[out'.wallpapers[1].id].file_id)
        /\ out'.got = <<out'.wallpapers[1].id>>) =>
          \E q \in ReceivedQueries :
             LET id == out'.wallpapers[1].id
                 G == backgrounds_'[id].file_id
                 F == q.id
             IN  /\ ReceivedQueries = {q}
                 /\ out'.wallpapers[1].doc_file = backgrounds_[id].file_id
                       => G = backgrounds_[id].file_id
                 /\ out'.merges = <<(<<G, F>>)>>
                 /\ file_main_'[F] = file_main_'[G]
                 /\ \A f \in DOMAIN file_main_ :
                       file_main_[f] = file_main_[F] => file_main_'[f] = file_main_'[G]
                 /\ set_background_id_'[q.dark] = id
                 /\ set_background_type_'[q.dark] = q.type
                 /\ out'.resolved = {Resolved(q.promise, "ok")}
      ]_vars

\* the upload of file 2 for the dark variant was answered with the wallpaper
\* that the light slot holds since start_up, whose file is 1: the two files
\* were merged and both slots hold that wallpaper
C13_Witness ==
    /\ out.op = "on_upload_background_query_result"
    /\ out.wallpapers = <<WpA>>
    /\ binlog_pmc.bg # << >>
    /\ out.merges = <<(<<1, MaxFiles + 1>>)>>
    /\ file_main_[MaxFiles + 1] = 1
    /\ file_main_[2] = 1
    /\ set_background_id_[FALSE] = RemoteId1
    /\ set_background_id_[TRUE] = RemoteId1
    /\ set_background_type_[TRUE] = BackgroundType("Pattern", 0)

\* C18 as stated: after any report of success or failure for file F,
\* being_uploaded_files_ has no entry for F.
C18_RemovedOnAnyReport ==
    [][IsUploadReport(out') =>
          \A f \in ReportedUploads : f \notin DOMAIN being_uploaded_files_'
      ]_vars

\* C18: an upload that is asked of the file manager gets a new entry of
\* being_uploaded_files_ with its type, variant and promise; a report of
\* success, and a report of failure that arrives while the close flag is not
\* set, looks the entry up once and erases it, leaving the other entries; a
\* report of failure that arrives while the close flag is set leaves the entry.
C18_RecordLifecycle ==
    [][/\ (out'.op = "set_background" /\ out'.uploads # << >>) =>
             \E f \in DOMAIN being_uploaded_files_' \ DOMAIN being_uploaded_files_ :
                /\ out'.uploads = <<f>>
                /\ f \in uploads' \ uploads
                /\ being_uploaded_files_' =
                      Put(being_uploaded_files_, f,
                          PendingUpload(out'.input[1].type, out'.input[1].for_dark_theme,
                                        NewPromise))
       /\ (/\ IsUploadReport(out')
           /\ out'.op = "on_upload_background_file_error" => ~close_flag) =>
             \E f \in ReportedUploads :
                /\ ReportedUploads = {f}
                /\ f \in DOMAIN being_uploaded_files_
                /\ out'.looked_up = <<f>>
                /\ being_uploaded_files_' = Erase(being_uploaded_files_, f)
       /\ (out'.op = "on_upload_background_file_error" /\ close_flag) =>
             /\ out'.looked_up = << >>
             /\ being_uploaded_files_' = being_uploaded_files_
      ]_vars

\* the file manager reported a failure of the only upload while the manager
\* was not closing: the entry was looked up and is gone
C18_Witness ==
    /\ out.op = "on_upload_background_file_error"
    /\ ~close_flag
    /\ out.looked_up = <<MaxFiles + 1>>
    /\ out.resolved # {}
    /\ being_uploaded_files_ = EmptyMap
    /\ MaxFiles + 1 \in DOMAIN file_main_

\* C19: on_upload_background_file_error, while the close flag is not set,
\* resolves the promise of the file's entry with the error (with code 500 when
\* the error has no positive code) and leaves the registry with its indices,
\* the installed list and the slots as they were; while the close flag is set
\* it resolves no promise and changes nothing of the manager.
C19_UploadFailure ==
    [][out'.op = "on_upload_background_file_error" =>
          \E f \in ReportedUploads :
             LET status == out'.input[1]
             IN  /\ ReportedUploads = {f}
                 /\ RegistryUnchanged
                 /\ SlotsUnchanged
                 /\ installed_background_ids_' = installed_background_ids_
                 /\ binlog_pmc' = binlog_pmc
                 /\ sqlite_pmc' = sqlite_pmc
                 /\ out'.updates = << >>
                 /\ out'.sent = << >>
                 /\ IF close_flag
                    THEN /\ out'.resolved = {}
                         /\ promises' = promises
                         /\ being_uploaded_files_' = being_uploaded_files_
                         /\ file_main_' = file_main_
                         /\ net_queries' = net_queries
                         /\ max_local_background_id_' = max_local_background_id_
                         /\ out'.cancels = << >>
                    ELSE /\ out'.resolved =
                               {Resolved(being_uploaded_files_[f].promise,
                                         StatusError(IF status.code > 0 THEN status.code
                                                     ELSE 500,
                                                     status.message))}
                         /\ promises' = promises \ {being_uploaded_files_[f].promise}
      ]_vars

\* a failure was reported while the manager was closing: the entry and the
\* promise of its caller are still there
C19_Witness ==
    /\ out.op = "on_upload_background_file_error"
    /\ close_flag
    /\ out.input = <<[code |-> 400, message |-> "FILE_PARTS_INVALID"]>>
    /\ out.resolved = {}
    /\ DOMAIN being_uploaded_files_ = {MaxFiles + 1}
    /\ being_uploaded_files_[MaxFiles + 1].promise \in promises
    /\ uploads = {}

\* C20: set_background with a usable local file and a type with a file: when
\* file_id_to_background_id_ has the file, no entry of being_uploaded_files_ is
\* made, no upload is asked, and the request is the one of set_background for
\* that identifier (an InstallBackgroundQuery for it, or the promise resolved
\* at once); otherwise exactly one entry is made and exactly one upload is
\* asked of the file manager, and no query is sent.
C20_UploadOrInstall ==
    [][(/\ out'.op = "set_background"
        /\ out'.input # << >>
        /\ out'.input[1].file.status = "ok"
        /\ has_file(out'.input[1].type)) =>
          LET request == out'.input[1]
              file_id == request.file.file_id
          IN  IF file_id \in DOMAIN file_id_to_background_id_
              THEN /\ being_uploaded_files_' = being_uploaded_files_
                   /\ uploads' = uploads
                   /\ file_main_' = file_main_
                   /\ out'.uploads = << >>
                   /\ \/ /\ out'.resolved = {}
                         /\ \E q \in net_queries' \ net_queries :
                               /\ out'.sent = <<q>>
                               /\ q.q = "InstallBackgroundQuery"
                               /\ q.id = file_id_to_background_id_[file_id]
                               /\ q.type = request.type
                               /\ q.dark = request.for_dark_theme
                               /\ q.promise = NewPromise
                      \/ /\ out'.sent = << >>
                         /\ \E r \in out'.resolved : out'.resolved = {r} /\ r.promise = NewPromise
              ELSE /\ out'.sent = << >>
                   /\ out'.resolved = {}
                   /\ \E f \in uploads' \ uploads :
                         /\ out'.uploads = <<f>>
                         /\ uploads' = uploads \cup {f}
                         /\ DOMAIN being_uploaded_files_' = DOMAIN being_uploaded_files_ \cup {f}
                         /\ f \notin DOMAIN being_uploaded_files_
                         /\ file_main_'[f] = file_main_[file_id]
      ]_vars

\* the file of the wallpaper the light slot holds was given again for the dark
\* variant: an install request for that wallpaper was sent and no upload asked
C20_Witness ==
    /\ out.op = "set_background"
    /\ out.input # << >>
    /\ out.input[1].file = [file_id |-> 1, status |-> "ok"]
    /\ 1 \in DOMAIN file_id_to_background_id_
    /\ out.uploads = << >>
    /\ being_uploaded_files_ = EmptyMap
    /\ Len(out.sent) = 1
    /\ out.sent[1].q = "InstallBackgroundQuery"
    /\ out.sent[1].id = file_id_to_background_id_[1]


\* C21: when the answer to an upload gives no valid identifier, or gives an
\* entity that has no file, the promise of the request gets an error,
\* cancel_upload is called for the uploaded file, merge is not called, and
\* the selection slots with their stored records stay as they were.
C21_InvalidUploadResult ==
    [][(/\ out'.op = "on_upload_background_query_result"
        /\ out'.result = "wallPaper"
        /\ \/ out'.got = <<NoId>>
           \/ /\ out'.got[1] \in DOMAIN backgrounds_'
              /\ ~file_is_valid(backgrounds_'[out'.got[1]].file_id)) =>
          \E q \in ReceivedQueries :
             /\ ReceivedQueries = {q}
             /\ \E r \in out'.resolved :
                   /\ out'.resolved = {r}
                   /\ r.promise = q.promise
                   /\ r.result \in {"500:Receive wrong uploaded background",
                                    "500:Receive wrong uploaded background without file"}
             /\ out'.cancels = <<q.id>>
             /\ out'.merges = << >>
             /\ file_main_' = file_main_
             /\ SlotsUnchanged
             /\ out'.updates = << >>
             /\ out'.sent = << >>
      ]_vars

\* an upload was answered with a wallPaperNoFile: the entity it gives has no
\* file, the upload was cancelled and the caller got the error
C21_Witness ==
    /\ out.op = "on_upload_background_query_result"
    /\ out.wallpapers = <<WpNoFile>>
    /\ out.got = <<RemoteId2>>
    /\ out.cancels = <<MaxFiles + 1>>
    /\ out.merges = << >>
    /\ \E r \in out.resolved : r.result = "500:Receive wrong uploaded background without file"
    /\ set_background_id_ = [d \in BOOLEAN |-> NoId]


(***************************************************************************)
(* Properties of the validation of the client's input (SpecValidate).       *)
(***************************************************************************)
\* the errors search_background, set_background and remove_background give
\* for an input they do not accept
InputErrors ==
    {"400:Background name must be non-empty", "400:WRONG_BACKGROUND",
     "400:Background to set not found", "400:Background type mismatch",
     "400:Input background must be non-empty for the background type",
     "400:Can't specify local file for the background type", "400:File not found",
     "400:Can't use encrypted file",
     "400:Need local or generate location to upload background",
     "400:Background not found"}
IsClientCall(o) == o.op \in {"search_background", "set_background", "remove_background"}

\* C22: when search_background, set_background or remove_background rejects
\* its input, the promise of the call has the error when the call returns, and
\* the registry with its indices, the installed list, the slots, the counter of
\* local ids, the uploads, the lookup queues and both stores are as before the
\* call; no query, no lookup and no upload is started.
C22_InputErrorsChangeNothing ==
    [][(IsClientCall(out') /\ \E r \in out'.resolved : r.result \in InputErrors) =>
          /\ \E r \in out'.resolved :
                out'.resolved = {r} /\ r.promise = NewPromise /\ r.promise \notin promises'
          /\ RegistryUnchanged
          /\ SlotsUnchanged
          /\ installed_background_ids_' = installed_background_ids_
          /\ max_local_background_id_' = max_local_background_id_
          /\ being_uploaded_files_' = being_uploaded_files_
          /\ uploads' = uploads
          /\ file_main_' = file_main_
          /\ sqlite_pmc' = sqlite_pmc
          /\ loaded_from_database_backgrounds_' = loaded_from_database_backgrounds_
          /\ being_loaded_from_database_backgrounds_' = being_loaded_from_database_backgrounds_
          /\ pending_get_backgrounds_queries_' = pending_get_backgrounds_queries_
          /\ net_queries' = net_queries
          /\ sqlite_gets' = sqlite_gets
          /\ issued' = issued
          /\ out'.sent = << >>
          /\ out'.db_gets = << >>
          /\ out'.uploads = << >>
          /\ out'.updates = << >>
          /\ out'.new_ids = << >>
          /\ out'.ret = NoOut.ret
      ]_vars

\* remove_background of an identifier the registry does not hold: the call's
\* promise has the error and nothing was sent
C22_Witness ==
    /\ out.op = "remove_background"
    /\ out.resolved = {Resolved(calls, "400:Background not found")}
    /\ out.sent = << >>
    /\ net_queries = {}
    /\ RemoteId2 \notin DOMAIN backgrounds_


(***************************************************************************)
(* Properties of the updates of the selected backgrounds (SpecEvents).      *)
(***************************************************************************)
SlotChanged(for_dark_theme) ==
    \/ set_background_id_'[for_dark_theme] # set_background_id_[for_dark_theme]
    \/ set_background_type_'[for_dark_theme] # set_background_type_[for_dark_theme]
\* every update of the step carries its variant and the object of the
\* background the slot of that variant holds after the step, the null object
\* when the slot is unset
UpdatesCarryProjection ==
    \A i \in 1..Len(out'.updates) :
       LET u == out'.updates[i]
       IN  /\ u.background =
                 get_background_object(World', set_background_id_'[u.for_dark_theme],
                                       u.for_dark_theme)
           /\ ~is_valid(set_background_id_'[u.for_dark_theme])
                 => u.background = NullBackgroundObject
\* the updates of every handler other than start_up and get_current_state:
\* one for a variant whose slot the step changed, none otherwise
OnePerChange ==
    out'.op \notin {"start_up", "get_current_state", "restart"} =>
       \A d \in BOOLEAN : UpdatesOf(out', d) = IF SlotChanged(d) THEN 1 ELSE 0

\* C23 as stated: one update per change of a slot and one per variant at
\* start_up, the updates of start_up being left out for a bot.
C23_BotStartUpSilent ==
    [][/\ UpdatesCarryProjection
       /\ OnePerChange
       /\ out'.op = "start_up" =>
             \A d \in BOOLEAN : UpdatesOf(out', d) = IF is_bot THEN 0 ELSE 1
      ]_vars

\* C23: an update with the variant and the object of the slot's background
\* (the null object when the slot is unset) is sent once for every change of a
\* slot and once per variant by start_up, for a bot as for a user; it is
\* get_current_state that gives one update per variant to a user and none to
\* a bot.
C23_SelectionEvents ==
    [][/\ UpdatesCarryProjection
       /\ OnePerChange
       /\ out'.op = "start_up" => \A d \in BOOLEAN : UpdatesOf(out', d) = 1
       /\ out'.op = "get_current_state" =>
             \A d \in BOOLEAN : UpdatesOf(out', d) = IF is_bot THEN 0 ELSE 1
      ]_vars

\* start_up of a bot's client with a stored light selection: both updates
\* were sent, the light one with the stored background
C23_Witness ==
    /\ is_bot
    /\ out.op = "start_up"
    /\ Len(out.updates) = 2
    /\ out.updates[1].for_dark_theme = FALSE
    /\ out.updates[1].background.id = RemoteId1
    /\ out.updates[2] = [for_dark_theme |-> TRUE, background |-> NullBackgroundObject]
    /\ set_background_id_[FALSE] = RemoteId1


(***************************************************************************)
(* Requests while closing (SpecClose).                                      *)
(***************************************************************************)
\* C24: once the close flag is set, get_backgrounds, search_background,
\* set_background, remove_background and reset_backgrounds send no query to
\* the server.
C24_NoRequestWhileClosing ==
    [][(close_flag /\ out'.op \in {"get_backgrounds", "search_background", "set_background",
                                   "remove_background", "reset_backgrounds"}) =>
          /\ out'.sent = << >>
          /\ net_queries' \subseteq net_queries
      ]_vars


(***************************************************************************)
(* The order of the lookups of search_background (SpecSearch).              *)
(***************************************************************************)
\* the stored string is a record on_load_background_from_database accepts
StoredHit(value) ==
    /\ value # << >>
    /\ has_file(ParseBackground(value[1]).type)
    /\ ParseBackground(value[1]).file_id # 0
    /\ ParseBackground(value[1]).id # 0
LoadsDone == sqlite_gets \ sqlite_gets'
\* a name whose lookup in the database has completed and that is in the
\* database with a record that is accepted, is in the name index
HitsAreIndexed ==
    \A slug \in loaded_from_database_backgrounds_ :
       (slug \in DOMAIN sqlite_pmc /\ StoredHit(<<sqlite_pmc[slug]>>))
          => slug \in DOMAIN name_to_background_id_
\* no lookup of a name is in flight once the lookup of that name has completed
NoLookupAfterLoad ==
    \A g \in sqlite_gets : g.name \notin loaded_from_database_backgrounds_

\* C25: search_background of a name that is not local: when the slug is in the
\* name index the promise is resolved at once and neither a database lookup
\* nor a request to the server is started; otherwise, with the database in
\* use, a GetBackgroundQuery is sent only by a call made after the lookup of
\* the slug has completed and has not put the slug in the name index; a call
\* made before the lookup has completed sends nothing and starts the lookup
\* only when none is in flight; a lookup that finds an accepted record puts
\* the slug in the name index and sends nothing.
C25_LookupOrder ==
    [][/\ (/\ out'.op = "search_background"
           /\ ~fatal'
           /\ ~ShortOrNotBase64(BeforeParams(out'.name))) =>
             LET slug == BeforeParams(out'.name)
             IN  IF slug \in DOMAIN name_to_background_id_
                 THEN /\ out'.sent = << >>
                      /\ out'.db_gets = << >>
                      /\ out'.resolved = {Resolved(NewPromise, "ok")}
                 ELSE use_file_db =>
                      /\ out'.sent # << >> =>
                            /\ slug \in loaded_from_database_backgrounds_
                            /\ out'.sent = <<Query("GetBackgroundQuery", NewPromise, NoId, slug,
                                                   DefaultType, FALSE)>>
                            /\ out'.db_gets = << >>
                      /\ slug \notin loaded_from_database_backgrounds_ =>
                            /\ out'.sent = << >>
                            /\ out'.db_gets =
                                  IF slug \in DOMAIN being_loaded_from_database_backgrounds_
                                  THEN << >> ELSE <<slug>>
       /\ (out'.op = "on_load_background_from_database" /\ ~fatal') =>
             \A g \in LoadsDone :
                /\ out'.sent = << >>
                /\ ~close_flag =>
                      /\ \/ g.name \in loaded_from_database_backgrounds_'
                         \/ g.name \in DOMAIN name_to_background_id_'
                      /\ StoredHit(g.value) => g.name \in DOMAIN name_to_background_id_'
       /\ HitsAreIndexed'
       /\ NoLookupAfterLoad'
      ]_vars

\* with the database in use, a call for a slug whose lookup had completed
\* without a record sent the request to the server
C25_Witness ==
    /\ out.op = "search_background"
    /\ use_file_db
    /\ out.name = SlugB
    /\ SlugB \in loaded_from_database_backgrounds_
    /\ SlugB \notin DOMAIN name_to_background_id_
    /\ Len(out.sent) = 1
    /\ out.sent[1].q = "GetBackgroundQuery"
    /\ out.sent[1].name = SlugB

(***************************************************************************)
(* C26: names that describe a fill stay out of the name index and out of    *)
(* the by-name store.                                                       *)
(***************************************************************************)
LocalNamesInRegistry ==
    {id \in DOMAIN backgrounds_ : is_background_name_local(backgrounds_[id].name)}

\* C26: in every reachable state no key of name_to_background_id_ is a local
\* name, no key of the by-name store is a local name (none was written), and
\* no get of the by-name store, in flight or started by the last step, is
\* for a local name (none was read).
C26_LocalNamesStayLocal ==
    /\ \A name \in DOMAIN name_to_background_id_ : ~is_background_name_local(name)
    /\ \A name \in DOMAIN sqlite_pmc : ~is_background_name_local(name)
    /\ \A g \in sqlite_gets : ~is_background_name_local(g.name)
    /\ \A i \in 1..Len(out.db_gets) : ~is_background_name_local(out.db_gets[i])

\* a fill name was just resolved with the by-name store in use: the registry
\* holds a record under a local name next to an indexed and stored slug
C26_Witness ==
    /\ ~fatal
    /\ use_file_db
    /\ out.op = "search_background"
    /\ out.name = FillName1
    /\ \E r \in out.resolved : r.result = "ok"
    /\ LocalNamesInRegistry # {}
    /\ DOMAIN name_to_background_id_ # {}
    /\ DOMAIN sqlite_pmc # {}

(***************************************************************************)
(* C27: the registry holds only records whose file agrees with their type.  *)
(* The binlog and the by-name store may hold records that break the rule:   *)
(* a fill with a document, a wallpaper without one.                         *)
(***************************************************************************)
StoredSlugA ==
    StoreBackground([EmptyBackground EXCEPT
                        !.id = RemoteId1, !.access_hash = RemoteId1, !.name = SlugA,
                        !.file_id = 1, !.type = BackgroundType("Wallpaper", 0)])
ByNameRecords ==
    {StoredSlugA,
     [StoredSlugA EXCEPT !.type = BackgroundType("Fill", 1)],
     [StoredSlugA EXCEPT !.has_file_id = FALSE, !.document = NoFile],
     [StoredSlugA EXCEPT !.name = SlugB]}

InitRegistry ==
    /\ UserInit
    /\ binlog_pmc \in [max_bg_id : {<< >>},
                       bg : {<< >>, StoredFillWithFile(2), StoredFile(RemoteId1, SlugA, 1, FALSE)},
                       bgd : {<< >>, StoredFile(RemoteId2, SlugB, MaxFiles, TRUE)}]
    /\ use_file_db = TRUE
    /\ sqlite_pmc \in {Put(EmptyMap, SlugA, r) : r \in ByNameRecords}
    /\ promises = {}
    /\ calls = 0
    /\ issued = {}
    /\ remote_seen = {}
    /\ out = NoOut

NextRegistry ==
    \/ StartUp
    \/ Restart
    \/ SearchBackground
    \/ OnLoadBackgroundFromDatabase
    \/ OnGetBackgroundQueryResult

SpecRegistry == InitRegistry /\ [][NextRegistry]_vars

RegistryValid == \A id \in DOMAIN backgrounds_ : ValidRecord(backgrounds_[id])
\* the answers whose type has a file and whose document gives none
NoUsableDocument == {WpEmptyDocument, WpBadDocument}

\* C27: after every step each record of the registry has a valid file exactly
\* when its type has a file; start_up does not add a stored record that
\* breaks the rule (unless the other variant stores a valid record of the
\* same identifier), on_load_background_from_database leaves registry and
\* name index as they were when the stored record breaks it, and so does
\* on_get_background for a wallPaper whose document gives no file.
C27_FileIffTypeHasFile ==
    [][/\ RegistryValid'
       /\ (out'.op = "start_up" /\ ~fatal') =>
             \A d \in BOOLEAN :
                (HasStored(binlog_pmc, d) /\ ~ValidRecord(StoredEvent(binlog_pmc, d).background_)) =>
                   \/ StoredEvent(binlog_pmc, d).background_.id \notin DOMAIN backgrounds_'
                   \/ /\ HasStored(binlog_pmc, ~d)
                      /\ ValidRecord(StoredEvent(binlog_pmc, ~d).background_)
                      /\ StoredEvent(binlog_pmc, ~d).background_.id =
                            StoredEvent(binlog_pmc, d).background_.id
       /\ (out'.op = "on_load_background_from_database" /\ ~fatal') =>
             \A g \in LoadsDone :
                (g.value # << >> /\ ~ValidRecord(ParseBackground(g.value[1]))) =>
                   /\ backgrounds_' = backgrounds_
                   /\ name_to_background_id_' = name_to_background_id_
                   /\ file_id_to_background_id_' = file_id_to_background_id_
       /\ (/\ out'.op = "on_get_background_query_result" /\ ~fatal'
           /\ out'.wallpapers # << >>
           /\ out'.wallpapers[1] \in NoUsableDocument) =>
             /\ backgrounds_' = backgrounds_
             /\ file_id_to_background_id_' = file_id_to_background_id_
      ]_vars

\* the by-name store held a fill with a document under SlugA: the lookup has
\* completed, SlugA is not indexed, and the registry holds a fill made locally
\* and a wallpaper with its file
C27_Witness ==
    /\ ~fatal
    /\ out.op = "on_load_background_from_database"
    /\ SlugA \in loaded_from_database_backgrounds_
    /\ SlugA \notin DOMAIN name_to_background_id_
    /\ sqlite_pmc[SlugA].type.kind = "Fill"
    /\ \E id \in DOMAIN backgrounds_ : ~has_file(backgrounds_[id].type)
    /\ \E id \in DOMAIN backgrounds_ : has_file(backgrounds_[id].type)

(***************************************************************************)
(* C28: the queue of get_backgrounds callers (SpecCatalog).                 *)
(***************************************************************************)
CatalogOutcome(o) == IF o.result = "error" THEN NetError ELSE "ok"

\* C28: get_backgrounds puts its caller at the tail of the queue and resolves
\* nobody; when no request is outstanding (none was sent yet, or the last one
\* has resolved) it sends a new GetBackgroundsQuery instead of answering from
\* the earlier outcome; on_get_backgrounds answers the request the head of
\* the queue sent, resolves the queued callers in the order of the queue,
\* each once and each with the outcome of that request, and empties the queue.
C28_QueuePerRequest ==
    [][/\ (out'.op = "get_backgrounds" /\ ~fatal') =>
             /\ pending_get_backgrounds_queries_' =
                    Append(pending_get_backgrounds_queries_, NewPromise)
             /\ out'.resolved_seq = << >>
             /\ NewPromise \in promises'
             /\ IF CatalogQueries = {}
                THEN /\ pending_get_backgrounds_queries_ = << >>
                     /\ out'.sent = <<Query("GetBackgroundsQuery", NewPromise, NoId,
                                            EmptyName, DefaultType, FALSE)>>
                     /\ CatalogQueries' = {out'.sent[1]}
                ELSE /\ out'.sent = << >>
                     /\ CatalogQueries' = CatalogQueries
       /\ (out'.op = "on_get_backgrounds" /\ ~fatal') =>
             /\ \A q \in ReceivedQueries : q.promise = pending_get_backgrounds_queries_[1]
             /\ out'.resolved_seq = pending_get_backgrounds_queries_
             /\ out'.resolved =
                    AllResolved(pending_get_backgrounds_queries_, CatalogOutcome(out'))
             /\ Cardinality(out'.resolved) = Len(pending_get_backgrounds_queries_)
             /\ promises' = promises \ Range(pending_get_backgrounds_queries_)
             /\ pending_get_backgrounds_queries_' = << >>
             /\ CatalogQueries' = {}
      ]_vars

\* the first caller is no longer waiting; the second caller sent a request
\* of its own, the third joined it, and the failure of that request resolved
\* the second and then the third
C28_Witness ==
    /\ ~fatal
    /\ out.op = "on_get_backgrounds"
    /\ out.result = "error"
    /\ out.resolved_seq = <<2, 3>>
    /\ out.resolved = {Resolved(2, NetError), Resolved(3, NetError)}
    /\ 1 \notin promises

(***************************************************************************)
(* C29: the waiters of the two queues, with every request that was handed   *)
(* to the network or to the by-name store eventually answered: the answer   *)
(* is a closure sent to the manager, which the scheduler runs while the     *)
(* manager is alive.                                                        *)
(***************************************************************************)
InitWaiters ==
    /\ InitSearch
    /\ use_file_db = TRUE
    /\ binlog_pmc.bg = << >>

NextWaiters ==
    \/ StartUp
    \/ Close
    \/ GetBackgrounds
    \/ OnGetBackgrounds
    \/ SearchBackground
    \/ OnLoadBackgroundFromDatabase
    \/ OnGetBackgroundQueryResult

SpecWaiters ==
    /\ InitWaiters
    /\ [][NextWaiters]_vars
    /\ WF_vars(OnGetBackgrounds)
    /\ WF_vars(OnLoadBackgroundFromDatabase)
    /\ WF_vars(OnGetBackgroundQueryResult)

InCatalogQueue(p) == p \in Range(pending_get_backgrounds_queries_)
InByNameQueue(p) ==
    \E name \in DOMAIN being_loaded_from_database_backgrounds_ :
       p \in Range(being_loaded_from_database_backgrounds_[name])
Answered(p) == p \notin promises

\* C29: a caller queued in pending_get_backgrounds_queries_ or in a queue of
\* being_loaded_from_database_backgrounds_ is eventually resolved, and a step
\* that takes a caller out of a queue resolves it, once, in that step; the
\* close flag makes no difference.
C29_WaitersResolved ==
    /\ \A p \in 1..MaxCalls : (InCatalogQueue(p) \/ InByNameQueue(p)) ~> Answered(p)
    /\ [][\A p \in 1..MaxCalls :
             ((InCatalogQueue(p) \/ InByNameQueue(p))
                 /\ ~(InCatalogQueue(p) \/ InByNameQueue(p))') =>
                    /\ Cardinality({r \in out'.resolved : r.promise = p}) = 1
                    /\ Len(SelectSeq(out'.resolved_seq, LAMBDA x : x = p)) = 1
         ]_vars

(***************************************************************************)
(* C30: add_background of a known identifier with another file              *)
(* (SpecSearch: the record comes with an answer to GetBackgroundQuery).     *)
(***************************************************************************)
\* file_id_to_background_id_.find(file_id): the identifier found, if any
LookupByFile(index, file_id) ==
    IF file_id \in DOMAIN index THEN index[file_id] ELSE NoId
\* the file of the record on_get_background makes of a wallpaper
FileOfAnswer(wp) == IF wp.ctor = "wallPaperNoFile" THEN NoFile ELSE wp.doc_file
\* the step added the wallpaper it received, the identifier was in the
\* registry with a valid file, and the wallpaper's file is another file
FileChanged ==
    /\ out'.op = "on_get_background_query_result"
    /\ ~fatal'
    /\ out'.wallpapers # << >>
    /\ out'.got = <<out'.wallpapers[1].id>>
    /\ is_valid(out'.wallpapers[1].id)
    /\ out'.wallpapers[1].id \in DOMAIN backgrounds_
    /\ file_is_valid(backgrounds_[out'.wallpapers[1].id].file_id)
    /\ FileViewId(World, backgrounds_[out'.wallpapers[1].id].file_id) #
          FileViewId(World, FileOfAnswer(out'.wallpapers[1]))

\* C30 as stated: after add_background of a record whose file differs from
\* the file stored for its identifier, the old file is no longer found for
\* the identifier, the record has the new file and a file source made for it
\* in this step, and the new file is found for the identifier.
C30_NewFileFound ==
    [][FileChanged =>
          LET id == out'.wallpapers[1].id
              old == backgrounds_[id].file_id
              new == FileOfAnswer(out'.wallpapers[1])
          IN  /\ LookupByFile(file_id_to_background_id_', old) # id
              /\ backgrounds_'[id].file_id = new
              /\ IF file_is_valid(new)
                 THEN out'.new_sources = <<id>>
                 ELSE /\ out'.new_sources = << >>
                      /\ ~is_valid(backgrounds_'[id].file_source_id)
              /\ LookupByFile(file_id_to_background_id_', new) = id
      ]_vars

(***************************************************************************)
(* C31: the name index only grows (SpecRegistry).                           *)
(***************************************************************************)
\* every entry of the name index is an entry after the step
NameIndexKept ==
    \A name \in DOMAIN name_to_background_id_ :
       /\ name \in DOMAIN name_to_background_id_'
       /\ name_to_background_id_'[name] = name_to_background_id_[name]
\* name is indexed after the step, for id unless it was indexed before
NameAdded(name, id) ==
    /\ name \in DOMAIN name_to_background_id_'
    /\ name \notin DOMAIN name_to_background_id_ => name_to_background_id_'[name] = id

\* C31: no step of a run removes an entry of name_to_background_id_ or changes
\* the identifier it maps to; when on_get_background accepts a wallPaper, the
\* name the request asked for and the slug of the wallPaper are both indexed
\* afterwards (for the answer's identifier when they were not indexed
\* before), next to the name the record had before, while a wallPaperNoFile,
\* whose name is that of a fill, adds nothing to the index; when
\* on_load_background_from_database accepts a stored record, the name that was
\* looked up maps to the record's identifier and the record's own name is
\* indexed as well.
C31_NameIndexOnlyGrows ==
    [][/\ out'.op # "restart" => NameIndexKept
       /\ (/\ out'.op = "on_get_background_query_result" /\ ~fatal'
           /\ out'.wallpapers # << >>
           /\ out'.got = <<out'.wallpapers[1].id>>
           /\ is_valid(out'.wallpapers[1].id)) =>
             LET wp == out'.wallpapers[1]
             IN  /\ wp.ctor = "wallPaper" =>
                       /\ \A q \in ReceivedQueries : NameAdded(q.name, wp.id)
                       /\ NameAdded(wp.slug, wp.id)
                 /\ wp.ctor = "wallPaperNoFile" =>
                       name_to_background_id_' = name_to_background_id_
                 /\ (/\ wp.id \in DOMAIN backgrounds_
                     /\ ~is_background_name_local(backgrounds_[wp.id].name)) =>
                       /\ backgrounds_[wp.id].name \in DOMAIN name_to_background_id_
                       /\ backgrounds_[wp.id].name \in DOMAIN name_to_background_id_'
       /\ (out'.op = "on_load_background_from_database" /\ ~fatal' /\ ~close_flag) =>
             \A g \in LoadsDone :
                (StoredHit(g.value) /\ g.name \notin DOMAIN name_to_background_id_) =>
                   /\ name_to_background_id_'[g.name] = ParseBackground(g.value[1]).id
                   /\ NameAdded(ParseBackground(g.value[1]).name,
                                ParseBackground(g.value[1]).id)
      ]_vars

\* the background known as SlugA came back under SlugB: both names map to it
C31_Witness ==
    /\ ~fatal
    /\ out.op = "on_get_background_query_result"
    /\ out.wallpapers = <<WpARenamed>>
    /\ RemoteId1 \in DOMAIN backgrounds_
    /\ backgrounds_[RemoteId1].name = SlugB
    /\ SlugA \in DOMAIN name_to_background_id_
    /\ name_to_background_id_[SlugA] = RemoteId1
    /\ name_to_background_id_[SlugB] = RemoteId1

(***************************************************************************)
(* C32: the type test of set_background(background_id, type)                *)
(* (SpecInstall: both slots hold file-backed backgrounds of the server).    *)
(***************************************************************************)
TypeMismatch == "400:Background type mismatch"

\* C32 as stated: a set_background call for a background of the registry with
\* a type that has a file is answered with "Background type mismatch" exactly
\* when the kind of the type differs from the kind of the background's type;
\* with equal kinds it is not rejected: it sends an InstallBackgroundQuery, or
\* succeeds at once when the slot holds this background with this type.
C32_MismatchIffKindsDiffer ==
    [][(/\ out'.op = "set_background" /\ ~fatal'
        /\ out'.by_id # << >>
        /\ has_file(out'.by_id[1].type)
        /\ out'.by_id[1].id \in DOMAIN backgrounds_) =>
          LET id == out'.by_id[1].id
              type == out'.by_id[1].type
          IN  IF backgrounds_[id].type.kind # type.kind
              THEN /\ out'.resolved = {Resolved(NewPromise, TypeMismatch)}
                   /\ out'.sent = << >>
              ELSE \/ /\ Len(out'.sent) = 1
                      /\ out'.sent[1].q = "InstallBackgroundQuery"
                      /\ out'.sent[1].id = id
                      /\ out'.sent[1].type = type
                      /\ out'.resolved = {}
                   \/ /\ out'.sent = << >>
                      /\ out'.resolved = {Resolved(NewPromise, "ok")}
      ]_vars

(***************************************************************************)
(* C33: slots and name index refer to records of the registry.  Every       *)
(* handler that sets a slot or indexes a name, from binlogs and by-name     *)
(* stores that hold valid and broken records.                               *)
(***************************************************************************)
InitIntegrity == InitRegistry

NextIntegrity ==
    \/ StartUp
    \/ Restart
    \/ SearchBackground
    \/ OnLoadBackgroundFromDatabase
    \/ OnGetBackgroundQueryResult
    \/ SetBackground
    \/ OnInstalledBackground
    \/ RemoveBackground
    \/ OnRemovedBackground

SpecIntegrity == InitIntegrity /\ [][NextIntegrity]_vars

\* C33: in every reachable state a slot that is set holds an identifier of
\* the registry, every identifier the name index maps to is in the registry,
\* and no CHECK has failed (those of save_background_id and
\* search_background included).
C33_ReferencesResolve ==
    /\ \A d \in BOOLEAN :
          is_valid(set_background_id_[d]) => set_background_id_[d] \in DOMAIN backgrounds_
    /\ \A name \in DOMAIN name_to_background_id_ :
          name_to_background_id_[name] \in DOMAIN backgrounds_
    /\ ~fatal

\* an install answered: the slot holds a background that is in the registry
\* and that a name of the index maps to, and save_background_id stored it
C33_Witness ==
    /\ ~fatal
    /\ out.op = "on_installed_background"
    /\ out.result = "ok"
    /\ out.saves # << >>
    /\ \E d \in BOOLEAN :
          /\ is_valid(set_background_id_[d])
          /\ \E name \in DOMAIN name_to_background_id_ :
                name_to_background_id_[name] = set_background_id_[d]
          /\ binlog_pmc[get_background_database_key(d)] # << >>

(***************************************************************************)
(* C34: a failed install, remove or reset (SpecInstall).                    *)
(***************************************************************************)
FailedAnswers == {"on_installed_background", "on_removed_background", "on_reset_background"}

\* C34: when InstallBackgroundQuery, UnsaveBackgroundQuery or
\* ResetBackgroundsQuery fails, the handler resolves the caller of that
\* request with the error it was given and does nothing else: installed list,
\* slots, binlog, registry and indexes stay as they were, no update is sent,
\* nothing is saved and no request is sent again.
C34_FailureChangesNothing ==
    [][(out'.op \in FailedAnswers /\ out'.result # "ok") =>
          /\ \E q \in ReceivedQueries :
                /\ ReceivedQueries = {q}
                /\ out'.resolved = {Resolved(q.promise, out'.result)}
                /\ net_queries' = net_queries \ {q}
          /\ out'.result = NetError
          /\ installed_background_ids_' = installed_background_ids_
          /\ SlotsUnchanged
          /\ RegistryUnchanged
          /\ out'.updates = << >>
          /\ out'.saves = << >>
          /\ out'.set_calls = << >>
          /\ out'.sent = << >>
      ]_vars

\* a reset failed while backgrounds were installed and both slots were set
C34_Witness ==
    /\ ~fatal
    /\ out.op = "on_reset_background"
    /\ out.result = NetError
    /\ installed_background_ids_ # << >>
    /\ \A d \in BOOLEAN : is_valid(set_background_id_[d])
    /\ \E r \in out.resolved : r.result = NetError

(***************************************************************************)
(* C35: a by-name lookup that completes after its name was indexed           *)
(* (SpecSearch).                                                            *)
(***************************************************************************)
\* the lookup of g found a record, and its name was indexed while it was in flight
OvertakenLookup(g) ==
    /\ g.value # << >>
    /\ g.name \in DOMAIN name_to_background_id_
    /\ g.name \in DOMAIN being_loaded_from_database_backgrounds_

\* C35 as stated: when on_load_background_from_database runs for a name that
\* is in the name index already, the stored record is ignored (registry and
\* indexes stay as they were) and every caller queued for the name is
\* resolved successfully and leaves the queue.
C35_LateRecordIgnored ==
    [][(out'.op = "on_load_background_from_database" /\ ~fatal') =>
          \A g \in LoadsDone :
             OvertakenLookup(g) =>
                /\ RegistryUnchanged
                /\ out'.resolved =
                      AllResolved(being_loaded_from_database_backgrounds_[g.name], "ok")
                /\ g.name \notin DOMAIN being_loaded_from_database_backgrounds_'
      ]_vars

(***************************************************************************)
(* C36: answers to overlapping installs and removes (SpecInstall).          *)
(***************************************************************************)
\* calls made after the call of promise p that were answered before it
AnsweredEarlier(p) == {p2 \in (p + 1)..calls : p2 \notin promises}

\* C36: a successful answer to InstallBackgroundQuery sets the slot of its
\* variant to the identifier and type of its own request and has the
\* identifier in the installed list (at the front when it was not in the
\* list), whatever was answered before it: a call made later and answered
\* earlier, an install of the same variant or a remove of the same
\* identifier, does not hold it back.
C36_LastAnswerWins ==
    [][(out'.op = "on_installed_background" /\ out'.result = "ok" /\ ~fatal') =>
          \E q \in ReceivedQueries :
             /\ ReceivedQueries = {q}
             /\ set_background_id_'[q.dark] = q.id
             /\ set_background_type_'[q.dark] = q.type
             /\ installed_background_ids_' =
                   IF q.id \in Range(installed_background_ids_)
                   THEN installed_background_ids_
                   ELSE <<q.id>> \o installed_background_ids_
             /\ out'.resolved = {Resolved(q.promise, "ok")}
      ]_vars

\* two installs of the light variant were outstanding; the second call was
\* answered first, then the first: the slot holds what the first call asked
\* for, and the dark slot still has the type start_up gave it
C36_Witness ==
    /\ ~fatal
    /\ out.op = "on_installed_background"
    /\ out.result = "ok"
    /\ out.resolved = {Resolved(1, "ok")}
    /\ AnsweredEarlier(1) = {2}
    /\ Len(installed_background_ids_) = 2
    /\ set_background_id_[FALSE] = installed_background_ids_[1]
    /\ set_background_type_[FALSE].kind = "Pattern"
    /\ set_background_type_[TRUE].kind = "Wallpaper"

(***************************************************************************)
(* C37: the installed list as a set (SpecCatalog).                          *)
(***************************************************************************)
\* C37 as stated: in every reachable state no identifier is at two places of
\* installed_background_ids_.
C37_InstalledDistinct ==
    \A i, j \in 1..Len(installed_background_ids_) :
       installed_background_ids_[i] = installed_background_ids_[j] => i = j

====
